---- MODULE Spec2Model ----
(***************************************************************************)
(* A model of the decision core of the email assistant:                   *)
(*   - backend/executor: ActionExecutor (validate_action,                 *)
(*     decide_eligibility, plan_execution), ExecutionPlan, the            *)
(*     allowed-action table;                                              *)
(*   - backend/llm/rule_engine.py: RuleEngine (evaluate and its helpers). *)
(* Spec is the executor driven by a sequential client; EngineSpec is the  *)
(* rule engine driven by a sequential client; ConcurrentSpec is one       *)
(* RuleEngine and one ActionExecutor called by several threads at once.   *)
(***************************************************************************)
EXTENDS Integers, Sequences, FiniteSets, TLC

VARIABLES
    simulation_mode,  \* ActionExecutor.simulation_mode
    pc,               \* "idle", "loop" inside plan_execution's for loop, "done"
    op,               \* the operation called last: its name, or "none"
    arg,              \* its action argument (validate_action, decide_eligibility)
    recommendation,   \* plan_execution's recommendation argument
    actions,          \* plan_execution's actions argument
    plan,             \* the ExecutionPlan plan_execution builds
    idx,              \* the position of plan_execution's for loop in actions
    ret,              \* what the call returned, or "TypeError" when it raised
    supplied,         \* the rules argument RuleEngine was constructed with
    rules,            \* RuleEngine.rules
    email,            \* the arguments of the evaluate call (the email context)
    calc,             \* the last direct _calculate_confidence call
    result,           \* the RuleEvaluationResult evaluate returned
    matching,         \* the last direct _pattern_matches call
    threads,          \* per thread: the call it is in, and the call's locals
    first,            \* per email: the first result evaluate returned for it
    email_jobs,       \* the committed rows of the email_jobs table, by job
    recommendations,  \* the committed rows of the action_recommendations table
    fetch,            \* the run of fetch_and_process_emails: its locals and session
    tasks             \* the Celery tasks dispatched, and how far each has run

executor_vars == <<simulation_mode, pc, op, arg, recommendation, actions, plan, idx, ret>>
engine_vars == <<supplied, rules, email, calc, result, matching>>
concurrent_vars == <<threads, first>>
worker_vars == <<email_jobs, recommendations, fetch, tasks>>
vars == <<simulation_mode, pc, op, arg, recommendation, actions, plan, idx, ret,
          supplied, rules, email, calc, result, matching, threads, first,
          email_jobs, recommendations, fetch, tasks>>

(***************************************************************************)
(* Python values.  A value carries its type tag and holds its content in *)
(* a field of its type's own, so that == between values of different     *)
(* types is false, as in Python.                                         *)
(***************************************************************************)
PyStr(s) == [t |-> "str", s |-> s]
PyInt(n) == [t |-> "int", n |-> n]
PyBool(b) == [t |-> "bool", b |-> b]
PyList(items) == [t |-> "list", items |-> items]
PyDict(d) == [t |-> "dict", d |-> d]
PyNone == [t |-> "NoneType"]

\* a == b
PyEq(a, b) == a = b

\* bool(x)
PyTruthy(x) ==
    CASE x.t = "NoneType" -> FALSE
      [] x.t = "bool" -> x.b
      [] x.t = "int" -> x.n # 0
      [] x.t = "str" -> x.s # ""
      [] x.t = "list" -> Len(x.items) > 0
      [] x.t = "dict" -> DOMAIN x.d # {}

\* `key in x` is defined (x is a container); otherwise it raises TypeError.
PyHasContains(x) == x.t \in {"dict", "list", "str"}

\* `key in x` for a str key: a key of the dict, an element of the list, a
\* substring of the str.  The str values of the model (StrValues below) hold
\* the keys looked up ("type", "label") only when equal to them.
PyContains(x, key) ==
    CASE x.t = "dict" -> key \in DOMAIN x.d
      [] x.t = "list" -> \E i \in DOMAIN x.items : x.items[i] = key
      [] x.t = "str" -> x.s = key

\* x[key] for a str key is defined on a dict alone: a list and a str take
\* integer indices and raise TypeError.
PyHasStrIndex(x) == x.t = "dict"

\* dict.get(key, default)
PyGet(x, key, default) == IF key \in DOMAIN x.d THEN x.d[key] ELSE default

(***************************************************************************)
(* backend/executor/allowed_actions.py                                    *)
(***************************************************************************)
ALLOWED_ACTIONS == <<"flag", "archive", "label", "read", "spam">>

ACTION_REQUIRED_FIELDS ==
    [flag |-> <<"type">>,
     archive |-> <<"type">>,
     label |-> <<"type", "label">>,
     read |-> <<"type">>,
     spam |-> <<"type">>]

\* A bug: no type is refused.
is_action_type_allowed_any(action_type) == TRUE

is_action_type_allowed(action_type) ==
    \E i \in DOMAIN ALLOWED_ACTIONS : PyEq(action_type, PyStr(ALLOWED_ACTIONS[i]))

\* A bug: the required-fields table is not consulted.
get_required_fields_untabled(action_type) == <<"type">>

get_required_fields(action_type) ==
    IF action_type.t = "str" /\ action_type.s \in DOMAIN ACTION_REQUIRED_FIELDS
    THEN ACTION_REQUIRED_FIELDS[action_type.s]
    ELSE <<"type">>

(***************************************************************************)
(* backend/executor/execution_plan.py                                     *)
(***************************************************************************)
APPROVED == "approved"
BLOCKED == "blocked"
REQUIRES_APPROVAL == "requires_approval"
SIMULATED == "simulated"
ExecutionDecision == {APPROVED, BLOCKED, REQUIRES_APPROVAL, SIMULATED}

ExecutionStep(action, decision, reasoning, is_simulated) ==
    [action |-> action, decision |-> decision, reasoning |-> reasoning,
     is_simulated |-> is_simulated]

ExecutionPlan(recommendation_id, user_id, email_job_id, is_simulated, status, reasoning) ==
    [recommendation_id |-> recommendation_id, user_id |-> user_id,
     email_job_id |-> email_job_id, steps |-> <<>>,
     is_simulated |-> is_simulated, status |-> status, reasoning |-> reasoning]

\* A bug: a blocked action gets no step.
add_step_skip_blocked(p, action, decision, reasoning) ==
    IF decision = BLOCKED THEN p
    ELSE [p EXCEPT !.steps = Append(@, ExecutionStep(action, decision, reasoning, p.is_simulated))]

\* A bug: the step keeps ExecutionStep's default is_simulated = False.
add_step_default_flag(p, action, decision, reasoning) ==
    [p EXCEPT !.steps = Append(@, ExecutionStep(action, decision, reasoning, FALSE))]

\* A bug: the new step is put in front of the list.
add_step_in_front(p, action, decision, reasoning) ==
    [p EXCEPT !.steps = <<ExecutionStep(action, decision, reasoning, p.is_simulated)>> \o @]

\* ExecutionPlan.add_step: the plan with one more step, which takes the
\* plan's own is_simulated.
add_step(p, action, decision, reasoning) ==
    [p EXCEPT !.steps = Append(@, ExecutionStep(action, decision, reasoning, p.is_simulated))]

get_approved_actions(p) ==
    SelectSeq(p.steps, LAMBDA step : step.decision = APPROVED)

get_blocked_actions(p) ==
    SelectSeq(p.steps, LAMBDA step : step.decision = BLOCKED)

(***************************************************************************)
(* backend/executor/action_executor.py                                    *)
(***************************************************************************)
\* A bug: a required field must also hold a value that is true.
validate_action_requires_value(action) ==
    IF ~PyTruthy(action) THEN "False"
    ELSE IF ~PyHasContains(action) THEN "TypeError"
    ELSE IF ~PyContains(action, "type") THEN "False"
    ELSE IF ~PyHasStrIndex(action) THEN "TypeError"
    ELSE LET action_type == action.d["type"]
             required_fields == get_required_fields(action_type)
         IN  IF ~is_action_type_allowed(action_type) THEN "False"
             ELSE IF \E i \in DOMAIN required_fields :
                         \/ ~PyContains(action, required_fields[i])
                         \/ ~PyTruthy(action.d[required_fields[i]])
                  THEN "False"
                  ELSE "True"

\* ActionExecutor.validate_action: "True", "False", or "TypeError" when the
\* call raises.
validate_action(action) ==
    IF ~PyTruthy(action) THEN "False"
    ELSE IF ~PyHasContains(action) THEN "TypeError"
    ELSE IF ~PyContains(action, "type") THEN "False"
    ELSE IF ~PyHasStrIndex(action) THEN "TypeError"
    ELSE LET action_type == action.d["type"]
             required_fields == get_required_fields(action_type)
         IN  IF ~is_action_type_allowed(action_type) THEN "False"
             ELSE IF \E i \in DOMAIN required_fields :
                         ~PyContains(action, required_fields[i])
                  THEN "False"
                  ELSE "True"

\* A bug: a valid action that carries a priority is sent to manual approval.
decide_eligibility_manual(action) ==
    LET valid == validate_action(action)
    IN  IF valid = "TypeError" THEN "TypeError"
        ELSE IF valid # "True" THEN BLOCKED
        ELSE IF "priority" \in DOMAIN action.d THEN REQUIRES_APPROVAL
        ELSE APPROVED

\* ActionExecutor.decide_eligibility: a decision, or "TypeError" when
\* validate_action raises.
decide_eligibility(action) ==
    LET valid == validate_action(action)
    IN  IF valid = "TypeError" THEN "TypeError"
        ELSE IF valid # "True" THEN BLOCKED
        ELSE APPROVED

(***************************************************************************)
(* Text is a sequence of tokens: a rule name is one token, and so is each *)
(* piece of punctuation that json.dumps and str.join put around it.  The  *)
(* rule names of the model are words that are no JSON literal.            *)
(***************************************************************************)
RuleNames == {"R1", "R2"}
MaxNames == 2
NameLists == UNION {[1..n -> RuleNames] : n \in 0..MaxNames}

RECURSIVE join(_, _)
\* sep.join(names)
join(sep, names) ==
    IF Len(names) = 0 THEN <<>>
    ELSE IF Len(names) = 1 THEN <<names[1]>>
    ELSE <<names[1], sep>> \o join(sep, Tail(names))

RECURSIVE json_dumps_items(_)
json_dumps_items(names) ==
    IF Len(names) = 0 THEN <<>>
    ELSE IF Len(names) = 1 THEN <<"\"", names[1], "\"">>
    ELSE <<"\"", names[1], "\"", ", ">> \o json_dumps_items(Tail(names))

\* json.dumps(names), of a list of str
json_dumps(names) == <<"[">> \o json_dumps_items(names) \o <<"]">>

\* The Python list of the str values names: each str is its text.
NativeList(names) == PyList([i \in DOMAIN names |-> <<names[i]>>])

\* json.loads(text): the list whose encoding text is; any other text of the
\* model (a bare name, names joined by commas, the empty text) is no JSON
\* document and raises JSONDecodeError.
json_loads(text) ==
    IF \E names \in NameLists : json_dumps(names) = text
    THEN [ok |-> TRUE,
          value |-> NativeList(CHOOSE names \in NameLists : json_dumps(names) = text)]
    ELSE [ok |-> FALSE, value |-> PyNone]

\* str(x), as text: of None, and of a str (itself).
PyStrOf(x) ==
    CASE x.t = "NoneType" -> <<"None">>
      [] x.t = "str" -> x.s

\* A bug: a str rule_names is not decoded, but kept whole in a one-element
\* list.
_generate_reasoning_undecoded(sim, rec, acts) ==
    LET given == rec.rule_names
        rule_names == IF given.t = "list" THEN given
                      ELSE PyList(<<PyStrOf(given)>>)
    IN  [sim_marker |-> IF sim THEN "[SIMULATION] " ELSE "",
         num_actions |-> Len(acts),
         rule_names |-> rule_names,
         confidence_score |-> rec.confidence_score]

\* ActionExecutor._generate_reasoning: the parts the f-string joins.  A str
\* rule_names is decoded as JSON, and kept whole in a one-element list when
\* it is no JSON; a value that is then no list is wrapped in one.
_generate_reasoning(sim, rec, acts) ==
    LET given == rec.rule_names
        decoded == IF given.t = "str"
                   THEN IF json_loads(given.s).ok
                        THEN json_loads(given.s).value
                        ELSE PyList(<<given.s>>)
                   ELSE given
        rule_names == IF decoded.t = "list"
                      THEN decoded
                      ELSE PyList(<<PyStrOf(decoded)>>)
    IN  [sim_marker |-> IF sim THEN "[SIMULATION] " ELSE "",
         num_actions |-> Len(acts),
         rule_names |-> rule_names,
         confidence_score |-> rec.confidence_score]

\* ActionExecutor._generate_step_reasoning, of a dict action: the sentence
\* chosen and the values formatted into it.
_generate_step_reasoning(action, decision) ==
    LET action_type == PyGet(action, "type", PyStr("unknown"))
        priority == PyGet(action, "priority", PyStr("default"))
    IN  CASE decision = APPROVED ->
               [text |-> "is allowed and approved", type |-> action_type,
                detail |-> IF PyTruthy(priority) THEN <<priority>> ELSE <<>>]
          [] decision = BLOCKED ->
               IF ~is_action_type_allowed(action_type)
               THEN [text |-> "is not in allowed list. Blocked for safety.",
                     type |-> action_type, detail |-> <<>>]
               ELSE [text |-> "failed validation. Blocked.",
                     type |-> action_type, detail |-> <<>>]
          [] decision = REQUIRES_APPROVAL ->
               [text |-> "requires manual approval.", type |-> action_type,
                detail |-> <<>>]
          [] OTHER ->
               [text |-> "decision", type |-> action_type, detail |-> <<decision>>]


(***************************************************************************)
(* The inputs of the executor's operations.                               *)
(***************************************************************************)
NoDict == [k \in {} |-> PyNone]

TypeValues ==
    {PyStr(s) : s \in {"flag", "archive", "label", "read", "spam",
                       "delete_forever", "send_email", "snooze"}}
    \cup {PyNone, PyInt(5)}
LabelValues == {PyStr(""), PyStr("Important"), PyNone}
PriorityValues == {PyInt(9), PyInt(0)}

\* Every dict with keys among type, label, priority.
FieldValues(k) ==
    CASE k = "type" -> TypeValues
      [] k = "label" -> LabelValues
      [] k = "priority" -> PriorityValues
ActionDicts ==
    {PyDict(f) : f \in UNION {{g \in [K -> TypeValues \cup LabelValues \cup PriorityValues] :
                                   \A k \in K : g[k] \in FieldValues(k)} :
                              K \in SUBSET {"type", "label", "priority"}}}

\* Values that are no dict.
StrValues == {"", "flag", "type"}
NonMappings ==
    {PyNone, PyInt(0), PyInt(5), PyBool(FALSE), PyBool(TRUE),
     PyList(<<>>), PyList(<<"type">>), PyList(<<"flag">>)}
    \cup {PyStr(s) : s \in StrValues}

\* The actions plan_execution's lists are made of.
PlanActions ==
    {PyDict(NoDict),
     PyDict([type |-> PyStr("flag"), priority |-> PyInt(9)]),
     PyDict([type |-> PyStr("delete_forever")]),
     PyDict([type |-> PyStr("archive")]),
     PyDict([type |-> PyStr("label")]),
     PyDict([type |-> PyStr("label"), label |-> PyStr("Important")])}

MaxActions == 3
ActionLists == UNION {[1..n -> PlanActions] : n \in 0..MaxActions}

Recommendation(rule_names) ==
    [id |-> "rec-1", user_id |-> "user-1", email_job_id |-> "job-1",
     rule_names |-> rule_names, confidence_score |-> 85]
Recommendations ==
    {Recommendation(NativeList(<<"R1", "R2">>)),
     Recommendation(PyStr(json_dumps(<<"R1", "R2">>))),
     Recommendation(PyStr(json_dumps(<<"R1">>)))}

NoPlan == ExecutionPlan("", "", "", FALSE, "", <<>>)
NoRecommendation == Recommendation(PyNone)

(***************************************************************************)
(* The executor, called by a sequential client.                           *)
(***************************************************************************)
\* ActionExecutor.__init__ with either simulation_mode; no call made yet.
ExecutorInit ==
    /\ simulation_mode \in BOOLEAN
    /\ pc = "idle"
    /\ op = "none"
    /\ arg = PyNone
    /\ recommendation = NoRecommendation
    /\ actions = <<>>
    /\ plan = NoPlan
    /\ idx = 0
    /\ ret = "none"

\* A call of validate_action(action).
ValidateAction(action) ==
    /\ pc = "idle"
    /\ op' = "validate_action"
    /\ arg' = action
    /\ ret' = validate_action(action)
    /\ recommendation' = NoRecommendation
    /\ actions' = <<>>
    /\ plan' = NoPlan
    /\ idx' = 0
    /\ pc' = "done"
    /\ UNCHANGED simulation_mode
    /\ UNCHANGED engine_vars
    /\ UNCHANGED concurrent_vars
    /\ UNCHANGED worker_vars

\* A call of decide_eligibility(action).
DecideEligibility(action) ==
    /\ pc = "idle"
    /\ op' = "decide_eligibility"
    /\ arg' = action
    /\ ret' = decide_eligibility(action)
    /\ recommendation' = NoRecommendation
    /\ actions' = <<>>
    /\ plan' = NoPlan
    /\ idx' = 0
    /\ pc' = "done"
    /\ UNCHANGED simulation_mode
    /\ UNCHANGED engine_vars
    /\ UNCHANGED concurrent_vars
    /\ UNCHANGED worker_vars

\* plan_execution(rec, acts) up to its for loop: the plan is constructed.
PlanExecutionBegin(rec, acts) ==
    /\ pc = "idle"
    /\ op' = "plan_execution"
    /\ arg' = PyNone
    /\ recommendation' = rec
    /\ actions' = acts
    /\ plan' = ExecutionPlan(rec.id, rec.user_id, rec.email_job_id,
                             simulation_mode,
                             IF simulation_mode THEN "simulated" ELSE "planned",
                             _generate_reasoning(simulation_mode, rec, acts))
    /\ idx' = 1
    /\ ret' = "none"
    /\ pc' = "loop"
    /\ UNCHANGED simulation_mode
    /\ UNCHANGED engine_vars
    /\ UNCHANGED concurrent_vars
    /\ UNCHANGED worker_vars

\* A bug: once an action was blocked, every later action is blocked too.
PlanExecutionStepSticky ==
    /\ pc = "loop"
    /\ idx <= Len(actions)
    /\ LET action == actions[idx]
           decision == IF Len(get_blocked_actions(plan)) > 0
                       THEN BLOCKED
                       ELSE decide_eligibility(action)
           reasoning == _generate_step_reasoning(action, decision)
       IN  plan' = add_step(plan, action, decision, reasoning)
    /\ idx' = idx + 1
    /\ UNCHANGED <<simulation_mode, pc, op, arg, recommendation, actions, ret>>
    /\ UNCHANGED engine_vars
    /\ UNCHANGED concurrent_vars
    /\ UNCHANGED worker_vars

\* One iteration of plan_execution's for loop.
PlanExecutionStep ==
    /\ pc = "loop"
    /\ idx <= Len(actions)
    /\ LET action == actions[idx]
           decision == decide_eligibility(action)
           reasoning == _generate_step_reasoning(action, decision)
       IN  plan' = add_step(plan, action, decision, reasoning)
    /\ idx' = idx + 1
    /\ UNCHANGED <<simulation_mode, pc, op, arg, recommendation, actions, ret>>
    /\ UNCHANGED engine_vars
    /\ UNCHANGED concurrent_vars
    /\ UNCHANGED worker_vars

\* plan_execution returns the plan.
PlanExecutionReturn ==
    /\ pc = "loop"
    /\ idx > Len(actions)
    /\ pc' = "done"
    /\ ret' = "plan"
    /\ UNCHANGED <<simulation_mode, op, arg, recommendation, actions, plan, idx>>
    /\ UNCHANGED engine_vars
    /\ UNCHANGED concurrent_vars
    /\ UNCHANGED worker_vars

\* The client drops the result of the call it made; the executor is as
\* constructed, ready for the next call.
ExecutorRelease ==
    /\ pc = "done"
    /\ pc' = "idle"
    /\ op' = "none"
    /\ arg' = PyNone
    /\ recommendation' = NoRecommendation
    /\ actions' = <<>>
    /\ plan' = NoPlan
    /\ idx' = 0
    /\ ret' = "none"
    /\ UNCHANGED simulation_mode
    /\ UNCHANGED engine_vars
    /\ UNCHANGED concurrent_vars
    /\ UNCHANGED worker_vars



(***************************************************************************)
(* backend/llm/rule_engine.py                                             *)
(*                                                                         *)
(* A sender, a subject, a body, a pattern and a keyword are sequences of   *)
(* characters.  A classification confidence is a float: the model takes    *)
(* the floats confidence / ConfDen with ConfDen a power of two, on which   *)
(* the product by 100 and the comparisons below are exact in floating      *)
(* point.  A rule's min_confidence is given in hundredths.                 *)
(***************************************************************************)
ConfBits == 4
ConfDen == 2 ^ ConfBits

Min(a, b) == IF a < b THEN a ELSE b
Max(a, b) == IF a > b THEN a ELSE b

\* dict.get(key, default) of a rule, a conditions dict
Get(d, key, default) == IF key \in DOMAIN d THEN d[key] ELSE default

UpperCase ==
    <<"A", "B", "C", "D", "E", "F", "G", "H", "I", "J", "K", "L", "M",
      "N", "O", "P", "Q", "R", "S", "T", "U", "V", "W", "X", "Y", "Z">>
LowerCase ==
    <<"a", "b", "c", "d", "e", "f", "g", "h", "i", "j", "k", "l", "m",
      "n", "o", "p", "q", "r", "s", "t", "u", "v", "w", "x", "y", "z">>

\* str.lower() of one character, and of a text
LowerChar(c) ==
    IF \E i \in DOMAIN UpperCase : UpperCase[i] = c
    THEN LowerCase[CHOOSE i \in DOMAIN UpperCase : UpperCase[i] = c]
    ELSE c
Lower(text) == [i \in DOMAIN text |-> LowerChar(text[i])]

\* `needle in hay` of two str
IsSubstring(needle, hay) ==
    \E start \in 0..(Len(hay) - Len(needle)) :
        \A i \in 1..Len(needle) : hay[start + i] = needle[i]

\* str.startswith(c)
StartsWith(text, c) == Len(text) > 0 /\ text[1] = c

RECURSIVE Replace(_, _, _)
\* str.replace(c, by) of a one-character c
Replace(text, c, by) ==
    IF Len(text) = 0 THEN <<>>
    ELSE (IF text[1] = c THEN by ELSE <<text[1]>>) \o Replace(Tail(text), c, by)

(***************************************************************************)
(* Python's re on the regular expressions the model's patterns give: a     *)
(* character, an escaped character, `.`, each possibly followed by `*`,    *)
(* and the anchors `^` and `$`.                                            *)
(***************************************************************************)
RECURSIVE ReMatchAt(_, _, _, _, _)
\* The regular expression from position i on matches text from position
\* pos on (up to any end).
ReMatchAt(re, i, text, pos, ignorecase) ==
    IF i > Len(re) THEN TRUE
    ELSE LET c == re[i]
             escaped == c = "\\" /\ i < Len(re)
             next == IF escaped THEN i + 2 ELSE i + 1
             starred == next <= Len(re) /\ re[next] = "*"
             optional == next <= Len(re) /\ re[next] = "?"
             \* a `?` after a quantifier makes it lazy: the same matches
             lazy == next + 1 <= Len(re) /\ re[next + 1] = "?"
             after == IF lazy THEN next + 2 ELSE next + 1
             fits == /\ pos <= Len(text)
                     /\ IF escaped
                        THEN IF ignorecase
                             THEN LowerChar(text[pos]) = LowerChar(re[i + 1])
                             ELSE text[pos] = re[i + 1]
                        ELSE IF c = "."
                        THEN text[pos] # "\n"
                        ELSE IF ignorecase
                             THEN LowerChar(text[pos]) = LowerChar(c)
                             ELSE text[pos] = c
         IN  IF c = "^" THEN pos = 1 /\ ReMatchAt(re, next, text, pos, ignorecase)
             ELSE IF c = "$"
             THEN pos = Len(text) + 1 /\ ReMatchAt(re, next, text, pos, ignorecase)
             ELSE IF starred
             THEN \/ ReMatchAt(re, after, text, pos, ignorecase)
                  \/ fits /\ ReMatchAt(re, i, text, pos + 1, ignorecase)
             ELSE IF optional
             THEN \/ ReMatchAt(re, after, text, pos, ignorecase)
                  \/ fits /\ ReMatchAt(re, after, text, pos + 1, ignorecase)
             ELSE fits /\ ReMatchAt(re, next, text, pos + 1, ignorecase)

\* bool(re.match(re, text, flags))
re_match(re, text, ignorecase) == ReMatchAt(re, 1, text, 1, ignorecase)

\* bool(re.search(re, text))
re_search(re, text) ==
    \E pos \in 1..(Len(text) + 1) : ReMatchAt(re, 1, text, pos, FALSE)

RECURSIVE ReCompilesFrom(_, _, _)
\* re.compile accepts the regular expression from position i on, prev being
\* what stands before: "none" (nothing a quantifier can repeat: the start,
\* an anchor), "atom", "quantifier" or "lazy" (a quantifier made lazy).  It
\* raises on a quantifier with nothing to repeat, on a repeated quantifier
\* and on a backslash that ends the pattern.
ReCompilesFrom(re, i, prev) ==
    IF i > Len(re) THEN TRUE
    ELSE LET c == re[i]
         IN  IF c = "\\" THEN i < Len(re) /\ ReCompilesFrom(re, i + 2, "atom")
             ELSE IF c \in {"^", "$"} THEN ReCompilesFrom(re, i + 1, "none")
             ELSE IF c = "*"
             THEN prev = "atom" /\ ReCompilesFrom(re, i + 1, "quantifier")
             ELSE IF c = "?"
             THEN \/ prev = "atom" /\ ReCompilesFrom(re, i + 1, "quantifier")
                  \/ prev = "quantifier" /\ ReCompilesFrom(re, i + 1, "lazy")
             ELSE ReCompilesFrom(re, i + 1, "atom")

ReCompiles(re) == ReCompilesFrom(re, 1, "none")

\* RuleEngine._pattern_matches
_pattern_matches(pattern, text) ==
    IF StartsWith(pattern, "^") \/ StartsWith(pattern, "(")
    THEN ReCompiles(pattern) /\ re_search(pattern, text)
    ELSE LET escaped == Replace(pattern, ".", <<"\\", ".">>)
             starred == Replace(escaped, "*", <<".", "*">>)
             regex_pattern == Replace(starred, "?", <<".">>)
         IN  ReCompiles(regex_pattern) /\ re_match(regex_pattern, text, TRUE)

\* A bug: the body keywords are looked for in the subject.
_rule_matches_body_in_subject(rule, email_context) ==
    LET conditions == Get(rule, "conditions", [k \in {} |-> <<>>])
        categories == Get(conditions, "category", <<>>)
        min_confidence == Get(conditions, "min_confidence", 0)
        sender_patterns == Get(conditions, "sender_pattern", <<>>)
        subject_keywords == Get(conditions, "subject_keywords", <<>>)
        body_keywords == Get(conditions, "body_keywords", <<>>)
        required_labels == Get(conditions, "labels", <<>>)
    IN  /\ Len(categories) > 0
           => \E i \in DOMAIN categories : categories[i] = email_context.classification
        /\ ~(email_context.confidence * 100 < min_confidence * ConfDen)
        /\ Len(sender_patterns) > 0
           => \E i \in DOMAIN sender_patterns :
                  _pattern_matches(sender_patterns[i], email_context.sender)
        /\ Len(subject_keywords) > 0
           => \E i \in DOMAIN subject_keywords :
                  IsSubstring(Lower(subject_keywords[i]), Lower(email_context.subject))
        /\ Len(body_keywords) > 0
           => \E i \in DOMAIN body_keywords :
                  IsSubstring(Lower(body_keywords[i]), Lower(email_context.subject))
        /\ Len(required_labels) > 0
           => \E i \in DOMAIN required_labels :
                  \E j \in DOMAIN email_context.labels :
                      email_context.labels[j] = required_labels[i]

\* RuleEngine._rule_matches
_rule_matches(rule, email_context) ==
    LET conditions == Get(rule, "conditions", [k \in {} |-> <<>>])
        categories == Get(conditions, "category", <<>>)
        min_confidence == Get(conditions, "min_confidence", 0)
        sender_patterns == Get(conditions, "sender_pattern", <<>>)
        subject_keywords == Get(conditions, "subject_keywords", <<>>)
        body_keywords == Get(conditions, "body_keywords", <<>>)
        required_labels == Get(conditions, "labels", <<>>)
    IN  IF /\ Len(categories) > 0
           /\ ~\E i \in DOMAIN categories : categories[i] = email_context.classification
        THEN FALSE
        ELSE IF email_context.confidence * 100 < min_confidence * ConfDen
        THEN FALSE
        ELSE IF /\ Len(sender_patterns) > 0
                /\ ~\E i \in DOMAIN sender_patterns :
                       _pattern_matches(sender_patterns[i], email_context.sender)
        THEN FALSE
        ELSE IF /\ Len(subject_keywords) > 0
                /\ ~\E i \in DOMAIN subject_keywords :
                       IsSubstring(Lower(subject_keywords[i]), Lower(email_context.subject))
        THEN FALSE
        ELSE IF /\ Len(body_keywords) > 0
                /\ ~\E i \in DOMAIN body_keywords :
                       IsSubstring(Lower(body_keywords[i]), Lower(email_context.body))
        THEN FALSE
        ELSE IF /\ Len(required_labels) > 0
                /\ ~\E i \in DOMAIN required_labels :
                       \E j \in DOMAIN email_context.labels :
                           email_context.labels[j] = required_labels[i]
        THEN FALSE
        ELSE TRUE

\* RuleEngine.VALID_ACTIONS: the action types, each with its description.
VALID_ACTIONS ==
    [archive |-> "Move email to archive",
     label |-> "Apply label/tag to email",
     flag |-> "Flag email for follow-up",
     snooze |-> "Snooze email for later",
     read |-> "Mark as read",
     spam |-> "Report as spam",
     reply_draft |-> "Draft a reply",
     notify |-> "Send notification to user",
     priority |-> "Set priority level",
     delegate |-> "Suggest delegation"]

\* `action_type in self.VALID_ACTIONS`
IsValidAction(action_type) ==
    action_type.t = "str" /\ action_type.s \in DOMAIN VALID_ACTIONS

\* A bug: the type is not checked against VALID_ACTIONS, and a type outside
\* it gets no description.
_create_action_unchecked(action_spec, email_context) ==
    LET action_type == PyGet(action_spec, "type", PyNone)
    IN  <<PyDict([type |-> action_type,
                  description |-> IF IsValidAction(action_type)
                                  THEN PyStr(VALID_ACTIONS[action_type.s])
                                  ELSE PyNone,
                  priority |-> PyGet(action_spec, "priority", PyInt(5)),
                  reason |-> PyGet(action_spec, "reason", PyStr(""))])>>

\* RuleEngine._create_action: <<the action>>, or <<>> for None.
_create_action(action_spec, email_context) ==
    LET action_type == PyGet(action_spec, "type", PyNone)
        common == [type |-> action_type,
                   description |-> PyStr(VALID_ACTIONS[action_type.s]),
                   priority |-> PyGet(action_spec, "priority", PyInt(5)),
                   reason |-> PyGet(action_spec, "reason", PyStr(""))]
        extra == CASE action_type.s = "label" ->
                        [label |-> PyGet(action_spec, "label", PyStr(""))]
                   [] action_type.s = "snooze" ->
                        [hours |-> PyGet(action_spec, "hours", PyInt(24))]
                   [] action_type.s = "reply_draft" ->
                        [template |-> PyGet(action_spec, "template", PyStr(""))]
                   [] action_type.s = "priority" ->
                        [level |-> PyGet(action_spec, "level", PyStr("normal"))]
                   [] action_type.s = "delegate" ->
                        [recipient |-> PyGet(action_spec, "recipient", PyStr(""))]
                   [] OTHER -> [k \in {} |-> PyNone]
    IN  IF ~IsValidAction(action_type) THEN <<>>
        ELSE <<PyDict([k \in DOMAIN common \cup DOMAIN extra |->
                          IF k \in DOMAIN extra THEN extra[k] ELSE common[k]])>>

\* int(x) of the float num / den >= 0: truncation.
PyInt_trunc(num, den) == num \div den

\* round(x), and the rounding of the format '.0%', of num / den >= 0: to the
\* nearest integer, a tie to the even one.
PyRound(num, den) ==
    LET q == num \div den
        r == num % den
    IN  IF 2 * r < den THEN q
        ELSE IF 2 * r > den THEN q + 1
        ELSE IF q % 2 = 0 THEN q ELSE q + 1

\* A bug: the score is not capped at 100.
_calculate_confidence_uncapped(matched_rules, email_context) ==
    IF Len(matched_rules) = 0 THEN 0
    ELSE LET base_score == PyInt_trunc(email_context.confidence * 100, ConfDen)
             rule_boost == Min(Len(matched_rules) * 10, 30)
             reduced == IF email_context.confidence * 5 < 3 * ConfDen
                        THEN Max(base_score - 20, 0)
                        ELSE base_score
         IN  Max(reduced + rule_boost, 0)

\* A bug: the boost is not capped at 30.
_calculate_confidence_unbounded_boost(matched_rules, email_context) ==
    IF Len(matched_rules) = 0 THEN 0
    ELSE LET base_score == PyInt_trunc(email_context.confidence * 100, ConfDen)
             rule_boost == Len(matched_rules) * 10
             reduced == IF email_context.confidence * 5 < 3 * ConfDen
                        THEN Max(base_score - 20, 0)
                        ELSE base_score
         IN  Max(Min(reduced + rule_boost, 100), 0)

\* RuleEngine._calculate_confidence; confidence < 0.6 is 5 * confidence < 3.
_calculate_confidence(matched_rules, email_context) ==
    IF Len(matched_rules) = 0 THEN 0
    ELSE LET base_score == PyInt_trunc(email_context.confidence * 100, ConfDen)
             rule_boost == Min(Len(matched_rules) * 10, 30)
             reduced == IF email_context.confidence * 5 < 3 * ConfDen
                        THEN Max(base_score - 20, 0)
                        ELSE base_score
         IN  Max(Min(reduced + rule_boost, 100), 0)

RECURSIVE Distinct(_)
\* names without the later occurrences of a name.
Distinct(names) ==
    IF Len(names) = 0 THEN <<>>
    ELSE LET front == Distinct(SubSeq(names, 1, Len(names) - 1))
             last == names[Len(names)]
         IN  IF \E i \in DOMAIN front : front[i] = last THEN front
             ELSE Append(front, last)

\* A bug: a type that several actions share is listed once only.
engine_generate_reasoning_distinct(matched_rules, acts, email_context) ==
    <<[sentence |-> "Email classified as",
       classification |-> email_context.classification,
       percent |-> PyRound(email_context.confidence * 100, ConfDen)]>>
    \o (IF Len(matched_rules) > 0
        THEN <<[sentence |-> "Matched rules:",
                names |-> join(", ", [i \in DOMAIN matched_rules |-> matched_rules[i].name])]>>
        ELSE <<>>)
    \o (IF Len(acts) > 0
        THEN <<[sentence |-> "Recommending actions:",
                types |-> join(", ", Distinct([i \in DOMAIN acts |-> acts[i].d["type"].s]))]>>
        ELSE <<>>)

\* RuleEngine._generate_reasoning: the sentences it joins by " ", each given
\* by the values formatted into it: the classification and its confidence as
\* a rounded percentage, the matched rules' names joined by ", ", the
\* actions' types joined by ", ".
engine_generate_reasoning(matched_rules, acts, email_context) ==
    <<[sentence |-> "Email classified as",
       classification |-> email_context.classification,
       percent |-> PyRound(email_context.confidence * 100, ConfDen)]>>
    \o (IF Len(matched_rules) > 0
        THEN <<[sentence |-> "Matched rules:",
                names |-> join(", ", [i \in DOMAIN matched_rules |-> matched_rules[i].name])]>>
        ELSE <<>>)
    \o (IF Len(acts) > 0
        THEN <<[sentence |-> "Recommending actions:",
                types |-> join(", ", [i \in DOMAIN acts |-> acts[i].d["type"].s])]>>
        ELSE <<>>)

\* The key of evaluate's sort: x.get("priority", 5)
SortKey(x) == PyGet(x, "priority", PyInt(5)).n

RECURSIVE InsertByPriority_before_equals(_, _)
\* A bug: x is placed before the elements of its own key; the sort is not
\* stable.
InsertByPriority_before_equals(sorted, x) ==
    IF Len(sorted) = 0 THEN <<x>>
    ELSE IF SortKey(sorted[1]) > SortKey(x)
         THEN <<sorted[1]>> \o InsertByPriority_before_equals(Tail(sorted), x)
         ELSE <<x>> \o sorted

RECURSIVE InsertByPriority(_, _)
\* sorted with x placed after every element whose key is not lower.
InsertByPriority(sorted, x) ==
    IF Len(sorted) = 0 THEN <<x>>
    ELSE IF SortKey(sorted[1]) >= SortKey(x)
         THEN <<sorted[1]>> \o InsertByPriority(Tail(sorted), x)
         ELSE <<x>> \o sorted

RECURSIVE SortByPriority(_)
\* list.sort(key = priority, reverse = True): descending and stable.
SortByPriority(acts) ==
    IF Len(acts) = 0 THEN <<>>
    ELSE InsertByPriority(SortByPriority(SubSeq(acts, 1, Len(acts) - 1)), acts[Len(acts)])

RECURSIVE CreateActions(_, _)
\* The inner loop of evaluate: the actions created from a rule's templates.
CreateActions(templates, email_context) ==
    IF Len(templates) = 0 THEN <<>>
    ELSE _create_action(templates[1], email_context)
         \o CreateActions(Tail(templates), email_context)

RECURSIVE EvaluateRules_overwrites_flags(_, _, _)
\* A bug: safety_flags is assigned the flags of the rule, not extended.
EvaluateRules_overwrites_flags(rs, email_context, acc) ==
    IF Len(rs) = 0 \/ acc.raised # "none" THEN acc
    ELSE LET rule == rs[1]
         IN  IF ~Get(rule, "is_active", TRUE)
             THEN EvaluateRules_overwrites_flags(Tail(rs), email_context, acc)
             ELSE IF ~_rule_matches(rule, email_context)
             THEN EvaluateRules_overwrites_flags(Tail(rs), email_context, acc)
             ELSE IF "name" \notin DOMAIN rule
             THEN [acc EXCEPT !.raised = "KeyError"]
             ELSE EvaluateRules_overwrites_flags(Tail(rs), email_context,
                    [acc EXCEPT
                       !.matched_rules =
                           Append(@, [name |-> rule.name,
                                      priority |-> Get(rule, "priority", 5)]),
                       !.recommended_actions =
                           @ \o CreateActions(Get(rule, "actions", <<>>), email_context),
                       !.safety_flags = Get(rule, "safety_flags", <<>>)])

RECURSIVE EvaluateRules(_, _, _)
\* The loop of evaluate over self.rules, from the result so far.  A matching
\* rule without a name raises KeyError at rule["name"].
EvaluateRules(rs, email_context, acc) ==
    IF Len(rs) = 0 \/ acc.raised # "none" THEN acc
    ELSE LET rule == rs[1]
         IN  IF ~Get(rule, "is_active", TRUE)
             THEN EvaluateRules(Tail(rs), email_context, acc)
             ELSE IF ~_rule_matches(rule, email_context)
             THEN EvaluateRules(Tail(rs), email_context, acc)
             ELSE IF "name" \notin DOMAIN rule
             THEN [acc EXCEPT !.raised = "KeyError"]
             ELSE EvaluateRules(Tail(rs), email_context,
                    [acc EXCEPT
                       !.matched_rules =
                           Append(@, [name |-> rule.name,
                                      priority |-> Get(rule, "priority", 5)]),
                       !.recommended_actions =
                           @ \o CreateActions(Get(rule, "actions", <<>>), email_context),
                       !.safety_flags = @ \o Get(rule, "safety_flags", <<>>)])

\* RuleEvaluationResult.__init__; reasoning "" is no sentence.  raised is
\* the exception evaluate ends with instead of returning the result, if any.
RuleEvaluationResult ==
    [matched_rules |-> <<>>, recommended_actions |-> <<>>, safety_flags |-> <<>>,
     confidence_score |-> 0, reasoning |-> <<>>, raised |-> "none", returned |-> TRUE]

\* A bug: the score and the reasoning are computed without looking at
\* matched_rules.
evaluate_always_explains(rs, email_context) ==
    LET looped == EvaluateRules(rs, email_context, RuleEvaluationResult)
        sorted == [looped EXCEPT !.recommended_actions = SortByPriority(@)]
    IN  IF looped.raised # "none" THEN looped
        ELSE [sorted EXCEPT
                !.confidence_score =
                    _calculate_confidence(sorted.matched_rules, email_context),
                !.reasoning =
                    engine_generate_reasoning(sorted.matched_rules,
                                              sorted.recommended_actions, email_context)]

\* RuleEngine.evaluate
evaluate(rs, email_context) ==
    LET looped == EvaluateRules(rs, email_context, RuleEvaluationResult)
        sorted == [looped EXCEPT !.recommended_actions = SortByPriority(@)]
    IN  IF looped.raised # "none" THEN looped
        ELSE IF Len(sorted.matched_rules) > 0
        THEN [sorted EXCEPT
                !.confidence_score =
                    _calculate_confidence(sorted.matched_rules, email_context),
                !.reasoning =
                    engine_generate_reasoning(sorted.matched_rules,
                                              sorted.recommended_actions, email_context)]
        ELSE sorted

\* RuleEngine._get_default_rules (descriptions left out: evaluate reads none)
_get_default_rules ==
    <<[name |-> "Flag important emails",
       conditions |-> [category |-> <<"important">>, min_confidence |-> 70],
       actions |-> <<PyDict([type |-> PyStr("flag"), priority |-> PyInt(9),
                             reason |-> PyStr("High-priority email flagged for immediate attention")])>>,
       priority |-> 9, is_active |-> TRUE],
      [name |-> "Archive promotional emails",
       conditions |-> [category |-> <<"promotional">>, min_confidence |-> 80],
       actions |-> <<PyDict([type |-> PyStr("archive"), priority |-> PyInt(8),
                             reason |-> PyStr("Promotional content archived")]),
                     PyDict([type |-> PyStr("label"), label |-> PyStr("Promotions"),
                             priority |-> PyInt(7),
                             reason |-> PyStr("Tagged for organization")])>>,
       priority |-> 5, is_active |-> TRUE],
      [name |-> "Mark spam as read",
       conditions |-> [category |-> <<"spam">>, min_confidence |-> 85],
       actions |-> <<PyDict([type |-> PyStr("read"), priority |-> PyInt(9),
                             reason |-> PyStr("Spam marked as read to reduce visual clutter")]),
                     PyDict([type |-> PyStr("spam"), priority |-> PyInt(8),
                             reason |-> PyStr("Report to spam service")])>>,
       priority |-> 7, is_active |-> TRUE],
      [name |-> "Flag follow-up emails",
       conditions |-> [category |-> <<"followup">>, min_confidence |-> 60],
       actions |-> <<PyDict([type |-> PyStr("flag"), priority |-> PyInt(9),
                             reason |-> PyStr("Follow-up needed")]),
                     PyDict([type |-> PyStr("snooze"), hours |-> PyInt(24),
                             priority |-> PyInt(8),
                             reason |-> PyStr("Snooze for tomorrow")])>>,
       priority |-> 8, is_active |-> TRUE],
      [name |-> "Draft replies for actionable emails",
       conditions |-> [category |-> <<"actionable">>, min_confidence |-> 75],
       actions |-> <<PyDict([type |-> PyStr("reply_draft"),
                             template |-> PyStr("Thank you for your email. I will review and respond shortly."),
                             priority |-> PyInt(7),
                             reason |-> PyStr("Standard acknowledgment template")])>>,
       priority |-> 6, is_active |-> TRUE]>>

\* The rules argument of RuleEngine.__init__: None, or a list of rules.
NoRules == [none |-> TRUE, list |-> <<>>]
RuleList(rs) == [none |-> FALSE, list |-> rs]

\* RuleEngine.__init__: self.rules = rules or self._get_default_rules();
\* _validate_rules only logs.
RuleEngine_init(rules_arg) ==
    IF rules_arg.none \/ Len(rules_arg.list) = 0
    THEN _get_default_rules
    ELSE rules_arg.list

\* create_rule_engine: the rules of the engine it returns.
create_rule_engine(user_rules) ==
    IF ~user_rules.none /\ Len(user_rules.list) > 0
    THEN RuleEngine_init(user_rules)
    ELSE RuleEngine_init(NoRules)

(***************************************************************************)
(* The inputs of the rule engine's operations.                            *)
(***************************************************************************)
NoConditions == [k \in {} |-> <<>>]

RulePool ==
    {[name |-> "R1", conditions |-> NoConditions,
      actions |-> <<PyDict([type |-> PyStr("flag"), priority |-> PyInt(9)])>>,
      priority |-> 9, is_active |-> TRUE],
     [name |-> "R2",
      conditions |-> [category |-> <<"important">>, min_confidence |-> 70],
      actions |-> <<PyDict([type |-> PyStr("archive"), priority |-> PyInt(8)]),
                    PyDict([type |-> PyStr("label"), label |-> PyStr("Promotions"),
                            priority |-> PyInt(9)])>>,
      safety_flags |-> <<"bulk">>,
      priority |-> 5, is_active |-> TRUE],
     [name |-> "R3",
      conditions |-> [sender_pattern |-> <<<<"*", "@", "b", ".", "c">>>>,
                      subject_keywords |-> <<<<"u", "r", "g">>>>,
                      labels |-> <<"INBOX">>],
      actions |-> <<PyDict([type |-> PyStr("notify")])>>],
     [name |-> "R4", conditions |-> NoConditions,
      actions |-> <<PyDict([type |-> PyStr("spam")])>>,
      is_active |-> FALSE],
     \* a template of a type outside VALID_ACTIONS, then one inside
     [name |-> "R5", conditions |-> NoConditions,
      actions |-> <<PyDict([type |-> PyStr("invalid_action")]),
                    PyDict([type |-> PyStr("flag"), priority |-> PyInt(7)])>>,
      safety_flags |-> <<"bulk">>],
     \* malformed: no name, no conditions, no actions
     [conditions |-> [category |-> <<"spam">>],
      actions |-> <<PyDict([type |-> PyStr("read")])>>],
     \* no conditions; a template priority outside 1..10
     [name |-> "R7",
      actions |-> <<PyDict([type |-> PyStr("snooze"), priority |-> PyInt(11)])>>],
     [name |-> "R8",
      conditions |-> [category |-> <<"important">>,
                      body_keywords |-> <<<<"X">>, <<"B">>>>]]}

MaxRules == 2
RuleLists == UNION {[1..n -> RulePool] : n \in 0..MaxRules}
RulesArgs == {NoRules} \cup {RuleList(rs) : rs \in RuleLists}

Classifications == {"important", "spam"}
Confidences == 0..ConfDen
Senders == {<<"U", "@", "b", ".", "c">>, <<"u", "@", "b", "x", "c">>}
Subjects == {<<"U", "R", "G", "!">>, <<"u", "r">>}
Bodies == {<<"a", "b">>, <<"a">>}
LabelLists == {<<>>, <<"INBOX">>}

EmailContexts ==
    [classification : Classifications, confidence : Confidences, sender : Senders,
     subject : Subjects, body : Bodies, labels : LabelLists]

\* The matched_rules and email_context of a direct _calculate_confidence call.
MaxMatched == 5
Matched(n) == [i \in 1..n |-> [name |-> "Rule", priority |-> 5]]
ConfidenceContext(confidence) ==
    [classification |-> "important", confidence |-> confidence]

(***************************************************************************)
(* The rule engine, called by a sequential client.                        *)
(***************************************************************************)
NoEmail == [classification |-> "", confidence |-> 0]
NoCalc ==
    [matched |-> 0, confidence |-> 0, score |-> 0, called |-> FALSE,
     again |-> FALSE, previous_matched |-> 0, previous_score |-> 0]
NoResult == [returned |-> FALSE]
NoMatching == [pattern |-> <<>>, text |-> <<>>, matched |-> FALSE, called |-> FALSE]

\* The patterns and texts of the direct _pattern_matches calls.
MaxPattern == 3
MaxText == 2
PatternChars == {"a", "B", ".", "*", "?", "$", "^"}
TextChars == {"a", "A", ".", "b"}
Patterns == UNION {[1..n -> PatternChars] : n \in 1..MaxPattern}
Texts == UNION {[1..n -> TextChars] : n \in 0..MaxText}

\* No engine is constructed.
EngineIdle ==
    /\ supplied = NoRules
    /\ rules = <<>>
    /\ email = NoEmail
    /\ calc = NoCalc
    /\ result = NoResult
    /\ matching = NoMatching

\* RuleEngine(rules) or create_rule_engine(rules), with rules None or a list;
\* no call made yet.
EngineInit ==
    /\ supplied \in RulesArgs
    /\ rules \in {RuleEngine_init(supplied), create_rule_engine(supplied)}
    /\ email = NoEmail
    /\ calc = NoCalc
    /\ result = NoResult
    /\ matching = NoMatching

\* A call of evaluate.
Evaluate(email_context) ==
    /\ ~result.returned
    /\ ~calc.called
    /\ ~matching.called
    /\ email' = email_context
    /\ result' = evaluate(rules, email_context)
    /\ UNCHANGED <<supplied, rules, calc, matching>>
    /\ UNCHANGED executor_vars
    /\ UNCHANGED concurrent_vars
    /\ UNCHANGED worker_vars

\* A direct call of _calculate_confidence with n matched rules.
CalculateConfidence(n, confidence) ==
    /\ ~result.returned
    /\ ~calc.called
    /\ ~matching.called
    /\ calc' = [NoCalc EXCEPT
                  !.matched = n, !.confidence = confidence,
                  !.score = _calculate_confidence(Matched(n), ConfidenceContext(confidence)),
                  !.called = TRUE]
    /\ UNCHANGED <<supplied, rules, email, result, matching>>
    /\ UNCHANGED executor_vars
    /\ UNCHANGED concurrent_vars
    /\ UNCHANGED worker_vars

\* A second direct call of _calculate_confidence, with n matched rules and
\* the email_context of the first, as the tests of the score make it.
CalculateConfidenceAgain(n) ==
    /\ calc.called
    /\ ~calc.again
    /\ calc' = [calc EXCEPT
                  !.matched = n,
                  !.score = _calculate_confidence(Matched(n), ConfidenceContext(calc.confidence)),
                  !.again = TRUE,
                  !.previous_matched = calc.matched,
                  !.previous_score = calc.score]
    /\ UNCHANGED <<supplied, rules, email, result, matching>>
    /\ UNCHANGED executor_vars
    /\ UNCHANGED concurrent_vars
    /\ UNCHANGED worker_vars

\* A direct call of _pattern_matches, on the engine of create_rule_engine()
\* as the tests of the patterns make it.
PatternMatches(pattern, text) ==
    /\ rules = _get_default_rules
    /\ ~result.returned
    /\ ~calc.called
    /\ ~matching.called
    /\ matching' = [pattern |-> pattern, text |-> text,
                    matched |-> _pattern_matches(pattern, text), called |-> TRUE]
    /\ UNCHANGED <<supplied, rules, email, calc, result>>
    /\ UNCHANGED executor_vars
    /\ UNCHANGED concurrent_vars
    /\ UNCHANGED worker_vars

\* The direct calls of _pattern_matches the client can make.
PatternMatchesCall ==
    /\ ~matching.called
    /\ rules = _get_default_rules
    /\ \E pattern \in Patterns, text \in Texts : PatternMatches(pattern, text)

\* The client drops the result of the call it made.
EngineRelease ==
    /\ result.returned \/ calc.called \/ matching.called
    /\ email' = NoEmail
    /\ calc' = NoCalc
    /\ result' = NoResult
    /\ matching' = NoMatching
    /\ UNCHANGED <<supplied, rules>>
    /\ UNCHANGED executor_vars
    /\ UNCHANGED concurrent_vars
    /\ UNCHANGED worker_vars

(***************************************************************************)
(* One RuleEngine and one ActionExecutor, called by several threads.  A    *)
(* thread is in at most one call; the call's locals (email_context,        *)
(* result, plan, the position of its loop) are the thread's own, and       *)
(* self.rules and self.simulation_mode are the instances'.  A step is one  *)
(* iteration of a loop, or the code between two loops.                     *)
(***************************************************************************)
NumThreads == 2
Threads == 1..NumThreads

\* plan_execution's for loop over acts, from the plan p.
RECURSIVE PlanLoop(_, _)
PlanLoop(p, acts) ==
    IF Len(acts) = 0 THEN p
    ELSE LET action == acts[1]
             decision == decide_eligibility(action)
             reasoning == _generate_step_reasoning(action, decision)
         IN  PlanLoop(add_step(p, action, decision, reasoning), Tail(acts))

\* ActionExecutor.plan_execution, run alone and to its end.
plan_execution(sim, rec, acts) ==
    PlanLoop(ExecutionPlan(rec.id, rec.user_id, rec.email_job_id, sim,
                           IF sim THEN "simulated" ELSE "planned",
                           _generate_reasoning(sim, rec, acts)),
             acts)

Rule(name) == CHOOSE rule \in RulePool : "name" \in DOMAIN rule /\ rule.name = name

\* The rule lists, emails, recommendation and action lists of the threads'
\* calls.
ConcurrentRules ==
    {<<Rule("R2"), Rule("R1")>>, <<Rule("R1"), Rule("R5"), Rule("R3")>>}
ConcurrentEmails ==
    {[classification |-> "important", confidence |-> ConfDen,
      sender |-> <<"U", "@", "b", ".", "c">>, subject |-> <<"U", "R", "G", "!">>,
      body |-> <<"a", "b">>, labels |-> <<"INBOX">>],
     [classification |-> "spam", confidence |-> ConfDen \div 2,
      sender |-> <<"u", "@", "b", "x", "c">>, subject |-> <<"u", "r">>,
      body |-> <<"a", "b">>, labels |-> <<>>]}
ConcurrentRecommendation == Recommendation(NativeList(<<"R1", "R2">>))
ConcurrentActionLists ==
    {<<>>,
     <<PyDict([type |-> PyStr("flag"), priority |-> PyInt(9)])>>,
     <<PyDict([type |-> PyStr("delete_forever")]), PyDict([type |-> PyStr("archive")])>>,
     <<PyDict([type |-> PyStr("label")]),
       PyDict([type |-> PyStr("flag"), priority |-> PyInt(9)])>>}

\* A thread that is in no call.
IdleThread ==
    [pc |-> "idle", op |-> "none", email_context |-> NoEmail, i |-> 0,
     result |-> RuleEvaluationResult, recommendation |-> NoRecommendation,
     actions |-> <<>>, plan |-> NoPlan]

ConcurrentIdle ==
    /\ threads = [t \in Threads |-> IdleThread]
    /\ first = [e \in ConcurrentEmails |-> NoResult]

\* Thread t calls evaluate: result = RuleEvaluationResult(), the
\* email_context is built, the loop over self.rules is about to start.
ThreadEvaluate(t, email_context) ==
    /\ threads[t].pc = "idle"
    /\ threads' = [threads EXCEPT ![t] =
                      [IdleThread EXCEPT !.pc = "rules", !.op = "evaluate",
                                         !.email_context = email_context, !.i = 1]]
    /\ UNCHANGED <<first, executor_vars, engine_vars, worker_vars>>

\* A bug: a rule that matched is switched off in self.rules.
ThreadEvaluateRule_fires_once(t) ==
    /\ threads[t].pc = "rules"
    /\ threads[t].i <= Len(rules)
    /\ LET acc == EvaluateRules(<<rules[threads[t].i]>>, threads[t].email_context,
                                threads[t].result)
       IN  /\ threads' = [threads EXCEPT ![t] =
                   IF acc.raised # "none"
                   THEN [@ EXCEPT !.result = acc, !.pc = "done"]
                   ELSE [@ EXCEPT !.result = acc, !.i = @ + 1]]
           /\ rules' = IF acc.matched_rules # threads[t].result.matched_rules
                       THEN [rules EXCEPT ![threads[t].i] =
                               [k \in DOMAIN @ \cup {"is_active"} |->
                                   IF k = "is_active" THEN FALSE ELSE @[k]]]
                       ELSE rules
    /\ UNCHANGED <<first, executor_vars, supplied, email, calc, result, matching, worker_vars>>

\* A bug: the result under construction is kept on the engine
\* (self.result), where the slot of thread 1 stands for it: every call
\* appends to the same lists.
ThreadEvaluateRule_shared_result(t) ==
    /\ threads[t].pc = "rules"
    /\ threads[t].i <= Len(rules)
    /\ LET acc == EvaluateRules(<<rules[threads[t].i]>>, threads[t].email_context,
                                threads[1].result)
           shared == [threads EXCEPT ![1] = [@ EXCEPT !.result = acc]]
       IN  threads' = [shared EXCEPT ![t] =
                          IF acc.raised # "none"
                          THEN [@ EXCEPT !.result = acc, !.pc = "done"]
                          ELSE [@ EXCEPT !.result = acc, !.i = @ + 1]]
    /\ UNCHANGED <<first, executor_vars, engine_vars, worker_vars>>

\* One iteration of evaluate's loop over self.rules, in thread t; the call
\* ends here when rule["name"] raises.
ThreadEvaluateRule(t) ==
    /\ threads[t].pc = "rules"
    /\ threads[t].i <= Len(rules)
    /\ LET acc == EvaluateRules(<<rules[threads[t].i]>>, threads[t].email_context,
                                threads[t].result)
       IN  threads' = [threads EXCEPT ![t] =
                          IF acc.raised # "none"
                          THEN [@ EXCEPT !.result = acc, !.pc = "done"]
                          ELSE [@ EXCEPT !.result = acc, !.i = @ + 1]]
    /\ UNCHANGED <<first, executor_vars, engine_vars, worker_vars>>

\* The loop of thread t is over: result.recommended_actions.sort(...)
ThreadEvaluateSort(t) ==
    /\ threads[t].pc = "rules"
    /\ threads[t].i > Len(rules)
    /\ threads' = [threads EXCEPT ![t] =
                      [@ EXCEPT !.result.recommended_actions = SortByPriority(@),
                                !.pc = "sorted"]]
    /\ UNCHANGED <<first, executor_vars, engine_vars, worker_vars>>

\* The end of evaluate in thread t: confidence_score and reasoning when a
\* rule matched, and the return.  first keeps the result if it is the first
\* one returned for this email.
ThreadEvaluateReturn(t) ==
    /\ threads[t].pc = "sorted"
    /\ LET th == threads[t]
           returned ==
               IF Len(th.result.matched_rules) > 0
               THEN [th.result EXCEPT
                       !.confidence_score =
                           _calculate_confidence(th.result.matched_rules, th.email_context),
                       !.reasoning =
                           engine_generate_reasoning(th.result.matched_rules,
                                                     th.result.recommended_actions,
                                                     th.email_context)]
               ELSE th.result
       IN  /\ threads' = [threads EXCEPT ![t] = [@ EXCEPT !.result = returned, !.pc = "done"]]
           /\ first' = IF first[th.email_context].returned THEN first
                       ELSE [first EXCEPT ![th.email_context] = returned]
    /\ UNCHANGED <<executor_vars, engine_vars, worker_vars>>

\* Thread t calls plan_execution: the plan is constructed, the loop over
\* actions is about to start.
ThreadPlanExecution(t, rec, acts) ==
    /\ threads[t].pc = "idle"
    /\ threads' = [threads EXCEPT ![t] =
          [IdleThread EXCEPT
              !.pc = "actions", !.op = "plan_execution",
              !.recommendation = rec, !.actions = acts, !.i = 1,
              !.plan = ExecutionPlan(rec.id, rec.user_id, rec.email_job_id,
                                     simulation_mode,
                                     IF simulation_mode THEN "simulated" ELSE "planned",
                                     _generate_reasoning(simulation_mode, rec, acts))]]
    /\ UNCHANGED <<first, executor_vars, engine_vars, worker_vars>>

\* A bug: the loop takes each action off the caller's list (actions.pop(0)).
ThreadPlanAction_pops(t) ==
    /\ threads[t].pc = "actions"
    /\ Len(threads[t].actions) > 0
    /\ LET action == threads[t].actions[1]
           decision == decide_eligibility(action)
           reasoning == _generate_step_reasoning(action, decision)
       IN  threads' = [threads EXCEPT ![t] =
                          [@ EXCEPT !.plan = add_step(@, action, decision, reasoning),
                                    !.actions = Tail(@)]]
    /\ UNCHANGED <<first, executor_vars, engine_vars, worker_vars>>

\* One iteration of plan_execution's loop over actions, in thread t.
ThreadPlanAction(t) ==
    /\ threads[t].pc = "actions"
    /\ threads[t].i <= Len(threads[t].actions)
    /\ LET action == threads[t].actions[threads[t].i]
           decision == decide_eligibility(action)
           reasoning == _generate_step_reasoning(action, decision)
       IN  threads' = [threads EXCEPT ![t] =
                          [@ EXCEPT !.plan = add_step(@, action, decision, reasoning),
                                    !.i = @ + 1]]
    /\ UNCHANGED <<first, executor_vars, engine_vars, worker_vars>>

\* plan_execution returns the plan in thread t.
ThreadPlanReturn(t) ==
    /\ threads[t].pc = "actions"
    /\ threads[t].i > Len(threads[t].actions)
    /\ threads' = [threads EXCEPT ![t] = [@ EXCEPT !.pc = "done"]]
    /\ UNCHANGED <<first, executor_vars, engine_vars, worker_vars>>

\* Thread t drops what its call returned and is ready for its next call.
ThreadRelease(t) ==
    /\ threads[t].pc = "done"
    /\ threads' = [threads EXCEPT ![t] = IdleThread]
    /\ UNCHANGED <<first, executor_vars, engine_vars, worker_vars>>

(***************************************************************************)
(* backend/worker/tasks/recommender.py: what generate_recommendation      *)
(* computes from the EmailJob row it read.                                 *)
(***************************************************************************)
\* An EmailJob row.  classification "" stands for None and for the empty
\* str, classification_confidence 0 for None and for 0: the code tests the
\* one with `not` and takes the other `or 0`.
EmailJob(id, classification, classification_confidence) ==
    [id |-> id, user_id |-> "user-1",
     classification |-> classification,
     classification_confidence |-> classification_confidence,
     sender |-> <<"U", "@", "b", ".", "c">>, subject |-> <<"U", "R", "G", "!">>,
     body |-> <<"a", "b">>]

\* The arguments generate_recommendation passes to evaluate: the confidence
\* is (classification_confidence or 0) / 100.0, labels None becomes [].
evaluate_arguments(email_job) ==
    [classification |-> email_job.classification,
     confidence |-> (email_job.classification_confidence * ConfDen) \div 100,
     sender |-> email_job.sender, subject |-> email_job.subject,
     body |-> email_job.body, labels |-> <<>>]

\* The names of the matched rules, in their order.
matched_rule_names(evaluation) ==
    [i \in DOMAIN evaluation.matched_rules |-> evaluation.matched_rules[i].name]

\* The ActionRecommendation generate_recommendation builds from the
\* evaluation: rule_names is the names joined by "," and None when no rule
\* matched; safety_flags <<>> stands for None and for [].
recommendation_record(email_job, evaluation) ==
    [id |-> "rec-1", user_id |-> email_job.user_id, email_job_id |-> email_job.id,
     rule_names |-> IF Len(evaluation.matched_rules) > 0
                    THEN PyStr(join(",", matched_rule_names(evaluation)))
                    ELSE PyNone,
     recommended_actions |-> evaluation.recommended_actions,
     safety_flags |-> evaluation.safety_flags,
     confidence_score |-> evaluation.confidence_score,
     reasoning |-> evaluation.reasoning,
     status |-> "generated"]

\* The rules a caller passes in user_context["rules"].
PipelineRulePool ==
    {[name |-> "P1", conditions |-> NoConditions,
      actions |-> <<PyDict([type |-> PyStr("flag"), priority |-> PyInt(9)]),
                    PyDict([type |-> PyStr("archive")]),
                    PyDict([type |-> PyStr("label"), label |-> PyStr("Work")]),
                    PyDict([type |-> PyStr("read")]),
                    PyDict([type |-> PyStr("spam")])>>],
     [name |-> "P2", conditions |-> NoConditions,
      actions |-> <<PyDict([type |-> PyStr("label")]),
                    PyDict([type |-> PyStr("snooze")]),
                    PyDict([type |-> PyStr("reply_draft")]),
                    PyDict([type |-> PyStr("notify")]),
                    PyDict([type |-> PyStr("priority")]),
                    PyDict([type |-> PyStr("delegate")])>>],
     [name |-> "P3",
      conditions |-> [category |-> <<"important">>, min_confidence |-> 70],
      actions |-> <<PyDict([type |-> PyStr("flag"), priority |-> PyInt(9)])>>]}

MaxPipelineRules == 2
PipelineRulesArgs ==
    {NoRules} \cup
    {RuleList(rs) : rs \in UNION {[1..n -> PipelineRulePool] : n \in 0..MaxPipelineRules}}

\* The rows generate_recommendation finds: not classified, or classified
\* with a confidence stored in percent.
PipelineEmailJobs ==
    {EmailJob("job-1", classification, classification_confidence) :
        classification \in {"", "important", "spam", "promotional"},
        classification_confidence \in {0, 50, 75, 100}}

(***************************************************************************)
(* The pipeline: generate_recommendation evaluates the rules for a stored  *)
(* email and stores the recommendation; plan_execution then plans the      *)
(* recommended actions of that recommendation.                             *)
(***************************************************************************)
\* generate_recommendation for a row that has no recommendation yet, run
\* alone: ret is "success", the error the task returns, or the exception
\* its retries end with.
PipelineGenerate(email_job, user_rules) ==
    /\ pc = "idle"
    /\ op = "none"
    /\ op' = "generate_recommendation"
    /\ IF email_job.classification = ""
       THEN /\ ret' = "Email not classified"
            /\ UNCHANGED <<supplied, rules, email, result, recommendation>>
       ELSE LET evaluation == evaluate(create_rule_engine(user_rules),
                                       evaluate_arguments(email_job))
            IN  /\ supplied' = user_rules
                /\ rules' = create_rule_engine(user_rules)
                /\ email' = evaluate_arguments(email_job)
                /\ result' = evaluation
                /\ IF evaluation.raised # "none"
                   THEN ret' = evaluation.raised /\ UNCHANGED recommendation
                   ELSE /\ ret' = "success"
                        /\ recommendation' = recommendation_record(email_job, evaluation)
    /\ UNCHANGED <<simulation_mode, pc, arg, actions, plan, idx, calc, matching>>
    /\ UNCHANGED concurrent_vars
    /\ UNCHANGED worker_vars

\* plan_execution(recommendation, recommendation.recommended_actions), run
\* to its end.
PipelinePlan ==
    /\ op = "generate_recommendation"
    /\ ret = "success"
    /\ op' = "plan_execution"
    /\ actions' = recommendation.recommended_actions
    /\ plan' = plan_execution(simulation_mode, recommendation,
                              recommendation.recommended_actions)
    /\ pc' = "done"
    /\ ret' = "plan"
    /\ UNCHANGED <<simulation_mode, arg, recommendation, idx>>
    /\ UNCHANGED engine_vars
    /\ UNCHANGED concurrent_vars
    /\ UNCHANGED worker_vars

(***************************************************************************)
(* backend/worker/tasks: fetch_and_process_emails stores the emails it     *)
(* fetched and dispatches, for each, classify_email and                    *)
(* generate_recommendation; the /generate endpoint dispatches              *)
(* generate_recommendation too.  Every run has a database session of its   *)
(* own and sees the rows that are committed, and the rows it flushed.      *)
(* Celery runs a dispatched task at any later time, beside the run that    *)
(* dispatched it: the countdown of 2 seconds delays generate_recommendation *)
(* but orders it after nothing, since neither the commit of the fetching   *)
(* run nor the classification is bound to end within 2 seconds.            *)
(***************************************************************************)
\* The emails gmail.fetch_emails returns, by position; the EmailJob made for
\* email j is job j.
NumEmails == 2
JobIds == 1..NumEmails

\* max_retries of the tasks.
max_retries == 3

ClassifyTask(j) == [kind |-> "classify_email", job |-> j, by |-> "fetch"]
GenerateTask(j, by) == [kind |-> "generate_recommendation", job |-> j, by |-> by]
GenerateTasks == {GenerateTask(j, by) : j \in JobIds, by \in {"fetch", "api"}}
TaskIds == {ClassifyTask(j) : j \in JobIds} \cup GenerateTasks

\* A task nobody dispatched.  pc: "none", "queued", "evaluated" (a
\* generate_recommendation that found no recommendation and has its own to
\* commit), "done"; error: what the task returned as its error.
NoTask == [pc |-> "none", retries |-> 0, error |-> "none"]

NoFetch ==
    [pc |-> "idle", i |-> 0, pending |-> {}, emails_processed |-> 0, errors |-> 0,
     committed |-> {}, returned |-> [status |-> "none", emails_processed |-> 0]]

\* No email is stored and no task runs.
WorkerIdle ==
    /\ email_jobs = [j \in JobIds |-> "absent"]
    /\ recommendations = <<>>
    /\ fetch = NoFetch
    /\ tasks = [t \in TaskIds |-> NoTask]

\* task.apply_async(...)
apply_async(ts, t) == [ts EXCEPT ![t] = [NoTask EXCEPT !.pc = "queued"]]

\* `raise self.retry(exc=e)`: the task is queued again, until max_retries
\* runs were retried; then the exception is what the task returns.
retry(ts, t) ==
    IF ts[t].retries < max_retries
    THEN [ts EXCEPT ![t] = [@ EXCEPT !.pc = "queued", !.retries = @ + 1]]
    ELSE [ts EXCEPT ![t] = [@ EXCEPT !.pc = "done", !.error = "exception"]]

\* The exceptions raised in the tasks so far, each of which was retried,
\* and the most the model raises.
MaxExceptions == 1
Exceptions ==
    Cardinality({<<t, k>> \in TaskIds \X (1..max_retries) : k <= tasks[t].retries})

\* The task returns.
return(ts, t, error) == [ts EXCEPT ![t] = [@ EXCEPT !.pc = "done", !.error = error]]

\* The row of job j once classify_email stored the classifier's answer.
ClassifiedEmailJob(j) == EmailJob(j, "important", 75)

\* session.add(recommendation); session.commit(): the table takes one more
\* row, whatever rows it holds.
insert_recommendation(table, row) == Append(table, row)

\* The committed recommendations of job j.
RecommendationsOf(j) ==
    {i \in DOMAIN recommendations : recommendations[i].email_job_id = j}

\* fetch_and_process_emails, steps 1 to 4: the account is found and the
\* emails are fetched, or an exception ends the run as failed.
FetchBegin(fetched) ==
    /\ fetch.pc = "idle"
    /\ fetch' = IF fetched
                THEN [fetch EXCEPT !.pc = "loop", !.i = 1]
                ELSE [fetch EXCEPT !.pc = "done",
                                   !.returned = [status |-> "failed", emails_processed |-> 0]]
    /\ UNCHANGED <<email_jobs, recommendations, tasks>>
    /\ UNCHANGED <<executor_vars, engine_vars, concurrent_vars>>

\* What becomes of one email in the loop of step 5: it is stored, or an
\* exception is raised before the row is flushed, by the dispatch of
\* classify_email or by the dispatch of generate_recommendation.
FetchOutcomes == {"stored", "failed", "classify_dispatch_failed", "generate_dispatch_failed"}

\* One iteration of the loop of step 5.  An exception rolls the session
\* back, which drops every row flushed since the last commit.
FetchEmail(outcome) ==
    /\ fetch.pc = "loop"
    /\ fetch.i <= NumEmails
    /\ LET j == fetch.i
       IN  IF outcome = "failed"
           THEN /\ fetch' = [fetch EXCEPT !.i = @ + 1, !.errors = @ + 1, !.pending = {}]
                /\ UNCHANGED tasks
           ELSE IF email_jobs[j] # "absent"
           THEN /\ outcome = "stored"
                /\ fetch' = [fetch EXCEPT !.i = @ + 1]
                /\ UNCHANGED tasks
           ELSE IF outcome = "stored"
           THEN /\ fetch' = [fetch EXCEPT !.i = @ + 1, !.emails_processed = @ + 1,
                                          !.pending = @ \cup {j}]
                /\ tasks' = apply_async(apply_async(tasks, ClassifyTask(j)),
                                        GenerateTask(j, "fetch"))
           ELSE /\ fetch' = [fetch EXCEPT !.i = @ + 1, !.emails_processed = @ + 1,
                                          !.errors = @ + 1, !.pending = {}]
                /\ tasks' = IF outcome = "generate_dispatch_failed"
                            THEN apply_async(tasks, ClassifyTask(j))
                            ELSE tasks
    /\ UNCHANGED <<email_jobs, recommendations>>
    /\ UNCHANGED <<executor_vars, engine_vars, concurrent_vars>>

\* After the loop: db.commit() stores the rows flushed and not rolled back,
\* the second commit stores last_sync, and the run returns its count; an
\* exception of either commit ends the run as failed, with a count of 0.
FetchCommit(outcome) ==
    /\ fetch.pc = "loop"
    /\ fetch.i > NumEmails
    /\ email_jobs' = IF outcome = "commit_failed" THEN email_jobs
                     ELSE [j \in JobIds |->
                              IF j \in fetch.pending THEN "stored" ELSE email_jobs[j]]
    /\ fetch' = [fetch EXCEPT
                   !.pc = "done",
                   !.pending = {},
                   !.committed = IF outcome = "commit_failed" THEN {} ELSE fetch.pending,
                   !.returned = IF outcome = "committed"
                                THEN [status |-> "success",
                                      emails_processed |-> fetch.emails_processed]
                                ELSE [status |-> "failed", emails_processed |-> 0]]
    /\ UNCHANGED <<recommendations, tasks>>
    /\ UNCHANGED <<executor_vars, engine_vars, concurrent_vars>>

\* A run of classify_email for job j.
ClassifyEmail(j, outcome) ==
    /\ tasks[ClassifyTask(j)].pc = "queued"
    /\ IF email_jobs[j] = "absent"
       THEN /\ outcome = "classified"
            /\ tasks' = return(tasks, ClassifyTask(j), "EmailJob not found")
            /\ UNCHANGED email_jobs
       ELSE IF email_jobs[j] = "classified"
       THEN /\ outcome = "classified"
            /\ tasks' = return(tasks, ClassifyTask(j), "none")
            /\ UNCHANGED email_jobs
       ELSE IF outcome = "classified"
       THEN /\ email_jobs' = [email_jobs EXCEPT ![j] = "classified"]
            /\ tasks' = return(tasks, ClassifyTask(j), "none")
       ELSE /\ Exceptions < MaxExceptions
            /\ tasks' = retry(tasks, ClassifyTask(j))
            /\ UNCHANGED email_jobs
    /\ UNCHANGED <<recommendations, fetch>>
    /\ UNCHANGED <<executor_vars, engine_vars, concurrent_vars>>

\* A run of generate_recommendation up to its query for an existing
\* recommendation: it returns, or goes on to evaluate the rules.
GenerateBegin(t) ==
    /\ tasks[t].pc = "queued"
    /\ tasks' =
          IF email_jobs[t.job] = "absent" THEN return(tasks, t, "EmailJob not found")
          ELSE IF email_jobs[t.job] # "classified"
          THEN return(tasks, t, "Email not classified")
          ELSE IF RecommendationsOf(t.job) # {} THEN return(tasks, t, "already_exists")
          ELSE [tasks EXCEPT ![t] = [@ EXCEPT !.pc = "evaluated"]]
    /\ UNCHANGED <<email_jobs, recommendations, fetch>>
    /\ UNCHANGED <<executor_vars, engine_vars, concurrent_vars>>

\* The rest of the run: the rules are evaluated and the recommendation is
\* committed, or an exception rolls it back and the task is retried.
GenerateCommit(t, outcome) ==
    /\ tasks[t].pc = "evaluated"
    /\ IF outcome = "committed"
       THEN LET email_job == ClassifiedEmailJob(t.job)
                evaluation == evaluate(create_rule_engine(NoRules),
                                       evaluate_arguments(email_job))
            IN  /\ recommendations' =
                      insert_recommendation(recommendations,
                                            recommendation_record(email_job, evaluation))
                /\ tasks' = return(tasks, t, "none")
       ELSE /\ Exceptions < MaxExceptions
            /\ tasks' = retry(tasks, t)
            /\ UNCHANGED recommendations
    /\ UNCHANGED <<email_jobs, fetch>>
    /\ UNCHANGED <<executor_vars, engine_vars, concurrent_vars>>

\* generate_recommendation_endpoint for job j, once per job: the email is
\* stored and has no recommendation, and the task is dispatched (otherwise
\* the endpoint answers 404 or "exists" and changes nothing).
GenerateEndpoint(j) ==
    /\ tasks[GenerateTask(j, "api")].pc = "none"
    /\ email_jobs[j] # "absent"
    /\ RecommendationsOf(j) = {}
    /\ tasks' = apply_async(tasks, GenerateTask(j, "api"))
    /\ UNCHANGED <<email_jobs, recommendations, fetch>>
    /\ UNCHANGED <<executor_vars, engine_vars, concurrent_vars>>

(***************************************************************************)
(* Spec: the executor alone.  EngineSpec: the rule engine alone, beside    *)
(* an executor nobody calls.  ConcurrentSpec: both, called by the threads. *)
(***************************************************************************)
Init == ExecutorInit /\ EngineIdle /\ ConcurrentIdle /\ WorkerIdle

Next ==
    \/ \E action \in ActionDicts \cup NonMappings : ValidateAction(action)
    \/ \E action \in ActionDicts \cup NonMappings : DecideEligibility(action)
    \/ \E rec \in Recommendations, acts \in ActionLists : PlanExecutionBegin(rec, acts)
    \/ PlanExecutionStep
    \/ PlanExecutionReturn
    \/ ExecutorRelease

Spec == Init /\ [][Next]_vars

PipelineNext ==
    \/ \E email_job \in PipelineEmailJobs, user_rules \in PipelineRulesArgs :
           PipelineGenerate(email_job, user_rules)
    \/ PipelinePlan

\* PipelineSpec: the worker's task and the executor, one after the other.
PipelineSpec == Init /\ [][PipelineNext]_vars

\* WorkerSpec: one run of fetch_and_process_emails on a table that holds
\* none of the fetched emails, or already the last of them, and the tasks
\* and requests that follow.
WorkerInit ==
    /\ ExecutorInit
    /\ simulation_mode
    /\ EngineIdle
    /\ ConcurrentIdle
    /\ email_jobs \in {[j \in JobIds |-> "absent"],
                       [j \in JobIds |-> IF j = NumEmails THEN "classified" ELSE "absent"]}
    /\ recommendations = <<>>
    /\ fetch = NoFetch
    /\ tasks = [t \in TaskIds |-> NoTask]

WorkerNext ==
    \/ \E fetched \in BOOLEAN : FetchBegin(fetched)
    \/ \E outcome \in FetchOutcomes : FetchEmail(outcome)
    \/ \E outcome \in {"committed", "commit_failed", "last_sync_failed"} : FetchCommit(outcome)
    \/ \E j \in JobIds, outcome \in {"classified", "exception"} : ClassifyEmail(j, outcome)
    \/ \E t \in GenerateTasks : GenerateBegin(t)
    \/ \E t \in GenerateTasks, outcome \in {"committed", "exception"} : GenerateCommit(t, outcome)
    \/ \E j \in JobIds : GenerateEndpoint(j)

WorkerSpec == WorkerInit /\ [][WorkerNext]_vars

EngineSpecInit ==
    EngineInit /\ ExecutorInit /\ simulation_mode /\ ConcurrentIdle /\ WorkerIdle

EngineNext ==
    \/ \E email_context \in EmailContexts : Evaluate(email_context)
    \/ \E n \in 0..MaxMatched, confidence \in Confidences : CalculateConfidence(n, confidence)
    \/ \E n \in 0..MaxMatched : CalculateConfidenceAgain(n)
    \/ PatternMatchesCall
    \/ EngineRelease

EngineSpec == EngineSpecInit /\ [][EngineNext]_vars

\* ConcurrentSpec: RuleEngine(rules) and ActionExecutor(simulation_mode) are
\* constructed, and the threads call them in any interleaving.
ConcurrentInit ==
    /\ ExecutorInit
    /\ rules \in ConcurrentRules
    /\ supplied = RuleList(rules)
    /\ email = NoEmail
    /\ calc = NoCalc
    /\ result = NoResult
    /\ matching = NoMatching
    /\ ConcurrentIdle
    /\ WorkerIdle

ConcurrentNext ==
    \E t \in Threads :
        \/ \E email_context \in ConcurrentEmails : ThreadEvaluate(t, email_context)
        \/ ThreadEvaluateRule(t)
        \/ ThreadEvaluateSort(t)
        \/ ThreadEvaluateReturn(t)
        \/ \E acts \in ConcurrentActionLists :
               ThreadPlanExecution(t, ConcurrentRecommendation, acts)
        \/ ThreadPlanAction(t)
        \/ ThreadPlanReturn(t)
        \/ ThreadRelease(t)

ConcurrentSpec == ConcurrentInit /\ [][ConcurrentNext]_vars

(***************************************************************************)
(* Claims about the executor, under Spec.                                 *)
(***************************************************************************)
Returned == op = "plan_execution" /\ ret = "plan"

\* C1: the plan plan_execution returns has exactly one step per input action,
\* and step i carries actions[i], in the input order (the empty list gives a
\* plan without steps); while the loop runs, the steps are those of the
\* actions already passed.
C1_OneStepPerAction ==
    /\ op = "plan_execution" =>
          /\ Len(plan.steps) = idx - 1
          /\ \A i \in 1..Len(plan.steps) : plan.steps[i].action = actions[i]
    /\ Returned =>
          /\ Len(plan.steps) = Len(actions)
          /\ actions = <<>> => plan.steps = <<>>

C1_Witness ==
    /\ Returned
    /\ Len(actions) = 3
    /\ actions[1] # actions[2]
    /\ actions[2] # actions[3]
    /\ decide_eligibility(actions[2]) = BLOCKED

\* C2: decide_eligibility returns BLOCKED exactly when validate_action returns
\* false and APPROVED exactly when it returns true; it never returns
\* REQUIRES_APPROVAL or SIMULATED.
C2_DecisionFollowsValidation ==
    op = "decide_eligibility" =>
        /\ ret = BLOCKED <=> validate_action(arg) = "False"
        /\ ret = APPROVED <=> validate_action(arg) = "True"
        /\ ret \notin {REQUIRES_APPROVAL, SIMULATED}

C2_Witness ==
    /\ op = "decide_eligibility"
    /\ arg = PyDict([type |-> PyStr("flag"), priority |-> PyInt(9)])
    /\ ret = APPROVED

\* What the claims say of a dict action, stated without the code's tables.
IsEmpty(action) == DOMAIN action.d = {}
HasType(action) == "type" \in DOMAIN action.d
TypeInWhitelist(action) ==
    /\ HasType(action)
    /\ action.d["type"].t = "str"
    /\ action.d["type"].s \in {"flag", "archive", "label", "read", "spam"}
IsLabelAction(action) ==
    /\ HasType(action)
    /\ action.d["type"] = PyStr("label")
LacksRequiredField(action) ==
    IsLabelAction(action) /\ "label" \notin DOMAIN action.d

C4_LabelNonEmpty ==
    (/\ op \in {"validate_action", "decide_eligibility"}
     /\ arg.t = "dict"
     /\ IsLabelAction(arg)
     /\ ("label" \notin DOMAIN arg.d \/ arg.d["label"] = PyStr(""))) =>
        ret = (IF op = "validate_action" THEN "False" ELSE BLOCKED)

\* C4, amended: a label action is valid when it carries a label key:
\* validate_action returns false, and decide_eligibility BLOCKED, for a label
\* action whose label field is missing; with the label key present, whatever
\* its value (the empty string too), it returns true, respectively APPROVED.
C4_LabelKeyRequired ==
    (/\ op \in {"validate_action", "decide_eligibility"}
     /\ arg.t = "dict"
     /\ IsLabelAction(arg)) =>
        IF "label" \notin DOMAIN arg.d
        THEN ret = (IF op = "validate_action" THEN "False" ELSE BLOCKED)
        ELSE ret = (IF op = "validate_action" THEN "True" ELSE APPROVED)

C4_Witness ==
    /\ op = "decide_eligibility"
    /\ arg = PyDict([type |-> PyStr("label"), priority |-> PyInt(9)])
    /\ ret = BLOCKED

\* C5, as claimed: validate_action and decide_eligibility never raise, for
\* any input: they return a boolean, respectively an ExecutionDecision.
C5_NeverRaise ==
    /\ op = "validate_action" => ret \in {"True", "False"}
    /\ op = "decide_eligibility" => ret \in ExecutionDecision

\* C6: the decision of step i of a plan is decide_eligibility(actions[i]),
\* whatever the other actions of the list are; [flag, delete_forever,
\* archive] gives exactly 2 APPROVED and 1 BLOCKED.
MixedActions ==
    <<PyDict([type |-> PyStr("flag"), priority |-> PyInt(9)]),
      PyDict([type |-> PyStr("delete_forever")]),
      PyDict([type |-> PyStr("archive")])>>

C6_IndependentDecisions ==
    /\ op = "plan_execution" =>
          \A i \in 1..Len(plan.steps) :
              /\ plan.steps[i].decision = decide_eligibility(actions[i])
              /\ TypeInWhitelist(actions[i]) /\ ~LacksRequiredField(actions[i])
                    => plan.steps[i].decision = APPROVED
    /\ (Returned /\ actions = MixedActions) =>
          /\ Len(get_approved_actions(plan)) = 2
          /\ Len(get_blocked_actions(plan)) = 1

C6_Witness == Returned /\ actions = MixedActions

\* C7: a plan has status "simulated" when simulation_mode is true and
\* "planned" otherwise, and its is_simulated and that of each of its steps
\* equal simulation_mode.
C7_StatusFollowsMode ==
    op = "plan_execution" =>
        /\ plan.status = (IF simulation_mode THEN "simulated" ELSE "planned")
        /\ plan.status \notin {"executed", "failed"}
        /\ plan.is_simulated = simulation_mode
        /\ \A i \in 1..Len(plan.steps) : plan.steps[i].is_simulated = simulation_mode

C7_Witness ==
    /\ Returned
    /\ simulation_mode
    /\ plan.status = "simulated"
    /\ Len(plan.steps) = 2

(***************************************************************************)
(* Claims about the rule engine, under EngineSpec.                        *)
(***************************************************************************)
Evaluated == result.returned /\ result.raised = "none"

\* C8: for every rule set and every email with a confidence in [0, 1], the
\* confidence_score of the result evaluate returns is an integer from 0 to
\* 100, both included.
C8_ScoreInRange ==
    Evaluated => result.confidence_score \in 0..100

\* evaluate returned a result with two matched rules for an email of
\* confidence 1, where base and boost pass 100 and the score is held at 100.
C8_Witness ==
    /\ Evaluated
    /\ Len(result.matched_rules) >= 2
    /\ email.confidence = ConfDen
    /\ result.confidence_score = 100

\* C9: with the classification confidence held fixed, the score of n + 1
\* matched rules is never below the score of n matched rules (n >= 1), and
\* it is the same score once the boost has reached its cap of 30 (n >= 3) or
\* the score its cap of 100.
C9_MonotoneInMatchedRules ==
    (calc.again /\ calc.previous_matched >= 1 /\ calc.matched = calc.previous_matched + 1)
        => /\ calc.score >= calc.previous_score
           /\ (calc.previous_matched >= 3 \/ calc.previous_score = 100)
                  => calc.score = calc.previous_score

\* The score was computed for three and then for four matched rules, below
\* the cap of 100: the boost is at its cap and the score did not grow.
C9_Witness ==
    /\ calc.again
    /\ calc.previous_matched = 3
    /\ calc.matched = 4
    /\ calc.previous_score < 100
    /\ calc.score = calc.previous_score

\* The score the specification gives to n matched rules, n >= 1: the base is
\* round(confidence * 100).
RoundedScore(n, confidence) ==
    LET base == PyRound(confidence * 100, ConfDen)
        reduced == IF confidence * 5 < 3 * ConfDen THEN Max(base - 20, 0) ELSE base
        boost == Min(10 * n, 30)
    IN  Max(Min(reduced + boost, 100), 0)

\* C10: when at least one rule matches, confidence_score is
\* min(base + boost, 100) floored at 0, with base = round(confidence * 100),
\* reduced to max(base - 20, 0) when confidence < 0.6, and
\* boost = min(10 * number of matched rules, 30).
C10_ScoreFromRoundedBase ==
    /\ (Evaluated /\ Len(result.matched_rules) >= 1)
          => result.confidence_score
                 = RoundedScore(Len(result.matched_rules), email.confidence)
    /\ (calc.called /\ calc.matched >= 1)
          => calc.score = RoundedScore(calc.matched, calc.confidence)

\* An active rule of the engine matches the email.
SomeRuleMatches ==
    \E i \in DOMAIN rules :
        Get(rules[i], "is_active", TRUE) /\ _rule_matches(rules[i], email)

\* C11: when no rule matches the email, evaluate returns a result with
\* confidence_score 0, the empty reasoning, and empty matched_rules,
\* recommended_actions and safety_flags.
C11_NoMatchGivesEmptyResult ==
    (result.returned /\ ~SomeRuleMatches)
        => /\ result.raised = "none"
           /\ result.confidence_score = 0
           /\ result.reasoning = <<>>
           /\ result.matched_rules = <<>>
           /\ result.recommended_actions = <<>>
           /\ result.safety_flags = <<>>

\* evaluate returned for an email of a confidence above 0 that none of the
\* engine's active rules matches.
C11_Witness ==
    /\ result.returned
    /\ ~SomeRuleMatches
    /\ \E i \in DOMAIN rules : Get(rules[i], "is_active", TRUE)
    /\ email.confidence > 0

\* The actions in the order evaluate produces them, before it sorts them: by
\* rule in the order of the rule set, then by template within the rule.
Produced == EvaluateRules(rules, email, RuleEvaluationResult).recommended_actions

WithPriority(acts, p) ==
    LET HasPriority(x) == SortKey(x) = p
    IN  SelectSeq(acts, HasPriority)

\* C13: recommended_actions is sorted by priority, descending, and the sort
\* is stable: the actions of one priority are in the order in which they
\* were produced (rule order in the rule set, then template order).
C13_SortedStable ==
    Evaluated =>
        LET acts == result.recommended_actions
        IN  /\ \A i, j \in DOMAIN acts : i < j => SortKey(acts[i]) >= SortKey(acts[j])
            /\ \A i \in DOMAIN Produced :
                   WithPriority(acts, SortKey(Produced[i]))
                       = WithPriority(Produced, SortKey(Produced[i]))
            /\ Len(acts) = Len(Produced)

\* evaluate returned actions the sort had to move, two different ones of
\* them with the same priority.
C13_Witness ==
    /\ Evaluated
    /\ result.recommended_actions # Produced
    /\ \E i, j \in DOMAIN result.recommended_actions :
           /\ i < j
           /\ SortKey(result.recommended_actions[i]) = SortKey(result.recommended_actions[j])
           /\ result.recommended_actions[i] # result.recommended_actions[j]

\* The active rules of the engine that match the email.
MatchingRules ==
    {i \in DOMAIN rules :
        Get(rules[i], "is_active", TRUE) /\ _rule_matches(rules[i], email)}

Vocabulary ==
    {"archive", "label", "flag", "snooze", "read", "spam", "reply_draft",
     "notify", "priority", "delegate"}

InVocabulary(template) ==
    /\ "type" \in DOMAIN template.d
    /\ template.d["type"].t = "str"
    /\ template.d["type"].s \in Vocabulary

\* C14: every action of recommended_actions has a type of the vocabulary; a
\* template of a matched rule with a type outside it is dropped and raises
\* nothing (evaluate raises only for a matching rule without a name), and
\* the templates of the rule with a type inside it are materialized.
C14_OnlyVocabularyActions ==
    /\ Evaluated =>
          /\ \A i \in DOMAIN result.recommended_actions :
                 InVocabulary(result.recommended_actions[i])
          /\ \A r \in MatchingRules :
                 \A k \in DOMAIN Get(rules[r], "actions", <<>>) :
                    LET template == rules[r].actions[k]
                    IN  InVocabulary(template) =>
                            \E i \in DOMAIN result.recommended_actions :
                                /\ result.recommended_actions[i].d["type"] = template.d["type"]
                                /\ SortKey(result.recommended_actions[i]) = SortKey(template)
    /\ (result.returned /\ result.raised # "none") =>
          \E r \in MatchingRules : "name" \notin DOMAIN rules[r]

\* evaluate returned for a matched rule with a template outside the
\* vocabulary and one inside it.
C14_Witness ==
    /\ Evaluated
    /\ \E r \in MatchingRules :
           /\ \E k \in DOMAIN Get(rules[r], "actions", <<>>) : ~InVocabulary(rules[r].actions[k])
           /\ \E k \in DOMAIN Get(rules[r], "actions", <<>>) : InVocabulary(rules[r].actions[k])
    /\ Len(result.recommended_actions) >= 1

Malformed(rule) ==
    \/ "name" \notin DOMAIN rule
    \/ "conditions" \notin DOMAIN rule
    \/ "actions" \notin DOMAIN rule

\* The rules of the engine without the malformed ones.
WellFormedRules ==
    LET WellFormed(rule) == ~Malformed(rule)
    IN  SelectSeq(rules, WellFormed)

\* C17: a malformed rule (no name, no conditions or no actions) never aborts
\* the engine: evaluate does not raise, and returns what the well-formed
\* rules alone give: the malformed rule adds no matched rule, no action and
\* no safety flag.
C17_MalformedRuleContributesNothing ==
    result.returned =>
        /\ result.raised = "none"
        /\ result = evaluate(WellFormedRules, email)

RECURSIVE FlagsOfMatching(_)
\* The safety_flags lists of the active rules among rs that match the email,
\* one after the other in the order of rs.
FlagsOfMatching(rs) ==
    IF Len(rs) = 0 THEN <<>>
    ELSE (IF Get(rs[1], "is_active", TRUE) /\ _rule_matches(rs[1], email)
          THEN Get(rs[1], "safety_flags", <<>>)
          ELSE <<>>) \o FlagsOfMatching(Tail(rs))

ReasoningTypes ==
    IF \E i \in DOMAIN result.reasoning :
           result.reasoning[i].sentence = "Recommending actions:"
    THEN LET i == CHOOSE k \in DOMAIN result.reasoning :
                      result.reasoning[k].sentence = "Recommending actions:"
             tokens == result.reasoning[i].types
         IN  [k \in 1..((Len(tokens) + 1) \div 2) |-> tokens[2 * k - 1]]
    ELSE <<>>

\* C19: the "Recommending actions:" part of the reasoning lists each action
\* type at most once, also when several recommended actions share a type.
C19_ReasoningTypesDistinct ==
    Evaluated =>
        \A i, j \in DOMAIN ReasoningTypes :
            i # j => ReasoningTypes[i] # ReasoningTypes[j]

\* C19, amended: the "Recommending actions:" part lists the type of every
\* recommended action, in the order of recommended_actions; a type that
\* several actions share is listed once for each of them.
C19_ReasoningTypesPerAction ==
    Evaluated =>
        ReasoningTypes = [k \in DOMAIN result.recommended_actions |->
                             result.recommended_actions[k].d["type"].s]

\* evaluate returned two actions of the type flag, and the reasoning lists
\* flag twice.
C19_Witness ==
    /\ Evaluated
    /\ Len(result.recommended_actions) = 2
    /\ \A k \in 1..2 : result.recommended_actions[k].d["type"] = PyStr("flag")
    /\ ReasoningTypes = <<"flag", "flag">>

(***************************************************************************)
(* Claims about the plan's steps, under Spec.                             *)
(***************************************************************************)
\* C20: the steps of an ExecutionPlan are append-only: an add_step call
\* leaves the list as the previous list plus one new last step, with no
\* earlier step removed, moved or changed (action, decision, reasoning,
\* is_simulated), and nothing else in plan_execution touches the list.
C20_StepsAppendOnly ==
    [][pc = "loop" =>
          IF idx' = idx + 1
          THEN /\ Len(plan'.steps) = Len(plan.steps) + 1
               /\ SubSeq(plan'.steps, 1, Len(plan.steps)) = plan.steps
          ELSE plan'.steps = plan.steps]_vars

\* The plan holds two different steps and add_step is about to be called
\* for a third action.
C20_Witness ==
    /\ pc = "loop"
    /\ Len(plan.steps) = 2
    /\ plan.steps[1] # plan.steps[2]
    /\ idx = 3
    /\ Len(actions) = 3
    /\ plan.steps[1].action # actions[3]

(***************************************************************************)
(* Claims about calls in sequence and at once, under ConcurrentSpec.      *)
(***************************************************************************)
InCall(t) == threads[t].pc # "idle"
ReturnedFrom(t, operation) == threads[t].pc = "done" /\ threads[t].op = operation

\* C12: evaluate and plan_execution change nothing outside the result they
\* construct: no step of any call changes the engine's rules or the
\* executor (its simulation_mode), and from its call to its return a call
\* leaves its arguments as they were given: the recommendation, the list of
\* actions with each action in it, the email.
C12_ArgumentsAndInstancesUnchanged ==
    [][/\ rules' = rules
       /\ simulation_mode' = simulation_mode
       /\ \A t \in Threads :
              (InCall(t) /\ threads'[t].pc # "idle") =>
                  /\ threads'[t].recommendation = threads[t].recommendation
                  /\ threads'[t].actions = threads[t].actions
                  /\ threads'[t].email_context = threads[t].email_context]_vars

\* After evaluate calls for both emails, one thread has returned from
\* evaluate with a matched rule and another from plan_execution with two
\* actions.
C12_Witness ==
    /\ \A e \in ConcurrentEmails : first[e].returned
    /\ \E t, u \in Threads :
           /\ ReturnedFrom(t, "evaluate")
           /\ Len(threads[t].result.matched_rules) >= 1
           /\ ReturnedFrom(u, "plan_execution")
           /\ Len(threads[u].actions) = 2
           /\ Len(threads[u].plan.steps) = 2

\* C15: evaluate is deterministic: every call that returns a result returns
\* the result that the first call with the same inputs returned on this
\* engine, whatever calls were made in between.
C15_SameInputsSameResult ==
    \A t \in Threads :
        (ReturnedFrom(t, "evaluate") /\ threads[t].result.raised = "none")
            => /\ first[threads[t].email_context].returned
               /\ threads[t].result = first[threads[t].email_context]

\* Two threads have returned from evaluate for the same email with a
\* matched rule, after a call for the other email returned.
C15_Witness ==
    /\ \A e \in ConcurrentEmails : first[e].returned
    /\ \E t, u \in Threads :
           /\ t # u
           /\ ReturnedFrom(t, "evaluate")
           /\ ReturnedFrom(u, "evaluate")
           /\ threads[t].email_context = threads[u].email_context
           /\ Len(threads[t].result.matched_rules) >= 1

\* C16: concurrent calls of evaluate, or of plan_execution, on the same
\* instance do not interfere: under every interleaving a call returns what
\* it returns when run alone on its arguments, and no step of a call writes
\* the state the calls share (self.rules, self.simulation_mode).
C16_NoInterference ==
    /\ [](\A t \in Threads :
             /\ ReturnedFrom(t, "evaluate")
                   => threads[t].result = evaluate(rules, threads[t].email_context)
             /\ ReturnedFrom(t, "plan_execution")
                   => threads[t].plan = plan_execution(simulation_mode,
                                                       threads[t].recommendation,
                                                       threads[t].actions))
    /\ [][rules' = rules /\ simulation_mode' = simulation_mode]_vars

\* A thread has returned from evaluate with a matched rule while another
\* thread is inside the rule loop of its own evaluate call for another
\* email, with a rule already matched.
C16_Witness ==
    \E t, u \in Threads :
        /\ ReturnedFrom(t, "evaluate")
        /\ Len(threads[t].result.matched_rules) >= 1
        /\ threads[u].pc = "rules"
        /\ threads[u].i > 1
        /\ Len(threads[u].result.matched_rules) >= 1
        /\ threads[u].email_context # threads[t].email_context

(***************************************************************************)
(* Claims about the plan's reasoning, under Spec.                         *)
(***************************************************************************)
\* C21: plan_execution takes rule_names as a native list and as the JSON
\* string that encodes the list: for a sequence of rule names, the plan's
\* reasoning is the same for both, it names the rules of the sequence, and
\* plan_execution raises on neither.
C21_BothRepresentations ==
    /\ (op = "plan_execution" /\ pc = "done") => ret = "plan"
    /\ Returned =>
          \A names \in NameLists :
              recommendation.rule_names \in {NativeList(names), PyStr(json_dumps(names))}
                  => /\ plan.reasoning.rule_names = NativeList(names)
                     /\ plan.reasoning =
                            _generate_reasoning(simulation_mode,
                                                Recommendation(NativeList(names)), actions)
                     /\ plan.reasoning =
                            _generate_reasoning(simulation_mode,
                                                Recommendation(PyStr(json_dumps(names))), actions)

\* plan_execution returned for a recommendation whose rule_names is the
\* JSON string of two names.
C21_Witness ==
    /\ Returned
    /\ recommendation.rule_names = PyStr(json_dumps(<<"R1", "R2">>))
    /\ plan.reasoning.rule_names = NativeList(<<"R1", "R2">>)
    /\ Len(actions) >= 1

(***************************************************************************)
(* Claims about matching, under EngineSpec.                               *)
(***************************************************************************)
IsWildcard(pattern) == ~StartsWith(pattern, "^") /\ ~StartsWith(pattern, "(")

RECURSIVE WildcardMatchesFrom(_, _, _, _)
\* The wildcard reading of pattern from position i on, against text from
\* position j on: * is zero or more characters, ? is one character, any
\* other character is itself whatever its case; the text may go on after
\* the match.
WildcardMatchesFrom(pattern, i, text, j) ==
    IF i > Len(pattern) THEN TRUE
    ELSE IF pattern[i] = "*"
         THEN \/ WildcardMatchesFrom(pattern, i + 1, text, j)
              \/ j <= Len(text) /\ WildcardMatchesFrom(pattern, i, text, j + 1)
    ELSE IF pattern[i] = "?"
         THEN j <= Len(text) /\ WildcardMatchesFrom(pattern, i + 1, text, j + 1)
    ELSE /\ j <= Len(text)
         /\ LowerChar(pattern[i]) = LowerChar(text[j])
         /\ WildcardMatchesFrom(pattern, i + 1, text, j + 1)

\* C22: a wildcard pattern (one that starts with neither ^ nor "(") matches
\* a text if and only if a prefix of the text matches it with * for zero or
\* more characters, ? for exactly one character and every other character
\* of the pattern, "." included, for itself, whatever the case: anchored at
\* the start, not at the end.
C22_WildcardSemantics ==
    (matching.called /\ IsWildcard(matching.pattern))
        => (matching.matched <=> WildcardMatchesFrom(matching.pattern, 1, matching.text, 1))

\* C22 holds of the patterns without a character that re reads as an
\* operator.
C22_PlainWildcards ==
    (matching.called /\ IsWildcard(matching.pattern)
      /\ \A i \in DOMAIN matching.pattern : matching.pattern[i] \notin {"$", "^"})
        => (matching.matched <=> WildcardMatchesFrom(matching.pattern, 1, matching.text, 1))

(***************************************************************************)
(* C23: which rules evaluate reports as matched.                          *)
(***************************************************************************)
\* The items of a list.
Items(list) == {list[i] : i \in DOMAIN list}

\* Condition `key` of the rule, the empty list when the rule has none.
Condition(rule, key) ==
    IF "conditions" \in DOMAIN rule /\ key \in DOMAIN rule.conditions
    THEN rule.conditions[key]
    ELSE <<>>

\* The rule's min_confidence in hundredths, 0 when the rule has none.
MinConfidence(rule) ==
    IF "conditions" \in DOMAIN rule /\ "min_confidence" \in DOMAIN rule.conditions
    THEN rule.conditions.min_confidence
    ELSE 0

\* Every condition the rule states holds of the email.
ConditionsHold(rule, e) ==
    /\ Condition(rule, "category") # <<>>
          => e.classification \in Items(Condition(rule, "category"))
    /\ e.confidence * 100 >= MinConfidence(rule) * ConfDen
    /\ Condition(rule, "sender_pattern") # <<>>
          => \E pattern \in Items(Condition(rule, "sender_pattern")) :
                 _pattern_matches(pattern, e.sender)
    /\ Condition(rule, "subject_keywords") # <<>>
          => \E keyword \in Items(Condition(rule, "subject_keywords")) :
                 IsSubstring(Lower(keyword), Lower(e.subject))
    /\ Condition(rule, "body_keywords") # <<>>
          => \E keyword \in Items(Condition(rule, "body_keywords")) :
                 IsSubstring(Lower(keyword), Lower(e.body))
    /\ Condition(rule, "labels") # <<>>
          => Items(Condition(rule, "labels")) \cap Items(e.labels) # {}

\* The rule is active: is_active is absent or true.
IsActive(rule) == "is_active" \notin DOMAIN rule \/ rule.is_active

\* The rules of the list that are active and whose conditions hold, in the
\* order of the list.
RECURSIVE Expected(_, _)
Expected(rs, e) ==
    IF rs = <<>> THEN <<>>
    ELSE IF IsActive(Head(rs)) /\ ConditionsHold(Head(rs), e)
         THEN <<Head(rs)>> \o Expected(Tail(rs), e)
         ELSE Expected(Tail(rs), e)

\* C23: the matched_rules evaluate returns are exactly the rules of the
\* engine that are active and of which every stated condition holds
\* (category, confidence >= min_confidence, some sender_pattern, some
\* subject keyword, some body keyword, some label), in the order of the
\* rule set; a rule without conditions matches every email, an inactive
\* rule or one whose min_confidence is above the confidence none.
C23_MatchedIffConditionsHold ==
    Evaluated
        => LET expected == Expected(rules, email)
           IN  /\ Len(result.matched_rules) = Len(expected)
               /\ \A i \in DOMAIN expected :
                     result.matched_rules[i].name = expected[i].name

\* evaluate returned for rules of which one matched and one did not, the
\* latter stating a condition on the body of the email.
C23_Witness ==
    /\ Evaluated
    /\ Len(result.matched_rules) = 1
    /\ Len(rules) = 2
    /\ \E i \in DOMAIN rules :
          /\ Condition(rules[i], "body_keywords") # <<>>
          /\ email.classification \in Items(Condition(rules[i], "category"))
          /\ ~ConditionsHold(rules[i], email)
    /\ \E i \in DOMAIN rules :
          /\ Condition(rules[i], "sender_pattern") # <<>>
          /\ ConditionsHold(rules[i], email)

(***************************************************************************)
(* C24: the priority of the recommended actions.                          *)
(***************************************************************************)
\* C24: every action in the recommended_actions evaluate returns has an
\* integer priority between 1 and 10.
C24_PriorityInRange ==
    Evaluated
        => \A i \in DOMAIN result.recommended_actions :
               LET priority == result.recommended_actions[i].d["priority"]
               IN  priority.t = "int" /\ priority.n \in 1..10

\* The priority an action of a type has in the templates of the rules that
\* matched: the template's own, 5 when the template gives none.
TemplatePriorities(type) ==
    {PyGet(template, "priority", PyInt(5)) :
        template \in {t \in UNION {Items(Get(rules[i], "actions", <<>>)) : i \in MatchingRules} :
                         t.d["type"] = type}}

\* The priority of every action returned is the one its template gives, 5
\* when the template gives none.
C24_PriorityOfTemplate ==
    Evaluated
        => \A i \in DOMAIN result.recommended_actions :
               LET action == result.recommended_actions[i]
               IN  action.d["priority"] \in TemplatePriorities(action.d["type"])

(***************************************************************************)
(* C25: the rule set of an engine.                                        *)
(***************************************************************************)
\* C25: the engine holds the default rule set if and only if it was
\* constructed without a rule set; constructed with a list, the empty list
\* included, it holds exactly the rules of the list, and with the empty
\* list evaluate matches nothing.
C25_DefaultsIffNoneSupplied ==
    /\ supplied.none => rules = _get_default_rules
    /\ ~supplied.none => rules = supplied.list
    /\ (~supplied.none /\ supplied.list = <<>> /\ Evaluated)
          => result.matched_rules = <<>>

\* The engine holds the rules it was constructed with whenever it was
\* constructed with a list that is not empty, and the default rules
\* otherwise.
C25_NonEmptyListSupplied ==
    IF ~supplied.none /\ supplied.list # <<>>
    THEN rules = supplied.list
    ELSE rules = _get_default_rules

(***************************************************************************)
(* C26, C27: the rule engine's recommendation, handed to the executor.     *)
(***************************************************************************)
\* plan_execution returned the plan of the recommendation that
\* generate_recommendation stored.
Planned == op = "plan_execution" /\ pc = "done" /\ ret = "plan"

\* C26: of every action evaluate emitted, the step of the plan is APPROVED
\* when the type is flag, archive, label, read or spam (an emitted label
\* action carries the key `label`), and BLOCKED when it is snooze,
\* reply_draft, notify, priority or delegate.
C26_DecidedByWhitelist ==
    Planned
        => /\ Len(plan.steps) = Len(result.recommended_actions)
           /\ \A i \in DOMAIN plan.steps :
                 LET action == result.recommended_actions[i]
                     type == action.d["type"].s
                 IN  /\ plan.steps[i].action = action
                     /\ type \in {"flag", "archive", "label", "read", "spam"}
                           => plan.steps[i].decision = APPROVED
                     /\ type \in {"snooze", "reply_draft", "notify", "priority", "delegate"}
                           => plan.steps[i].decision = BLOCKED
                     /\ type = "label" => "label" \in DOMAIN action.d

\* The plan holds an approved label action whose template gave no label,
\* and a blocked action of the engine's vocabulary.
C26_Witness ==
    /\ Planned
    /\ \E i \in DOMAIN plan.steps :
          /\ plan.steps[i].action.d["type"].s = "label"
          /\ plan.steps[i].action.d["label"] = PyStr("")
          /\ plan.steps[i].decision = APPROVED
    /\ \E i \in DOMAIN plan.steps :
          /\ plan.steps[i].action.d["type"].s = "delegate"
          /\ plan.steps[i].decision = BLOCKED

\* C27: the list of rule names plan_execution derives from the rule_names
\* of the stored recommendation is the list of the names of the rules that
\* matched, in their order, whether none, one or several matched.
C27_RuleNamesRoundTrip ==
    Planned
        => plan.reasoning.rule_names = NativeList(matched_rule_names(result))

\* C27 holds of the evaluations in which exactly one rule matched.
C27_OneRuleRoundTrip ==
    (Planned /\ Len(result.matched_rules) = 1)
        => plan.reasoning.rule_names = NativeList(matched_rule_names(result))

(***************************************************************************)
(* C28, C29, C30: the worker's tasks.                                      *)
(***************************************************************************)
\* C28: the action_recommendations table holds at most one recommendation
\* of each email job, whatever runs of generate_recommendation and requests
\* to the /generate endpoint were interleaved.
C28_AtMostOneRecommendation ==
    \A j \in JobIds : Cardinality(RecommendationsOf(j)) <= 1

\* C29: the generate_recommendation that fetch_and_process_emails
\* dispatched for an email it stored never returns "EmailJob not found" or
\* "Email not classified".
C29_GenerateFindsClassifiedEmail ==
    \A j \in JobIds :
        (j \in fetch.committed /\ tasks[GenerateTask(j, "fetch")].pc = "done")
            => tasks[GenerateTask(j, "fetch")].error
                   \notin {"EmailJob not found", "Email not classified"}

\* C30: the emails_processed a successful run of fetch_and_process_emails
\* returns is the number of EmailJob rows the run committed, also when an
\* email failed midway and the session was rolled back.
C30_ProcessedIsCommitted ==
    (fetch.pc = "done" /\ fetch.returned.status = "success")
        => fetch.returned.emails_processed = Cardinality(fetch.committed)

\* C30 holds of the runs that return success without an error.
C30_ProcessedIsCommittedWithoutError ==
    (fetch.pc = "done" /\ fetch.returned.status = "success" /\ fetch.errors = 0)
        => fetch.returned.emails_processed = Cardinality(fetch.committed)

====
